---- MODULE Spec2Model ----
(***************************************************************************)
(* Anti-nuke detection/punishment engine, rate tracker and lockdown        *)
(* controller of bot/cogs/antinuke.py, as a state machine.                 *)
(*                                                                         *)
(* Every coroutine is cut at its awaits: one action runs the code between  *)
(* two suspension points.  An external call (audit log, ban, role edit,    *)
(* permission edit, log send) is issued at the end of one action and its   *)
(* outcome, success or failure, is consumed by the next.                   *)
(***************************************************************************)
EXTENDS Integers, Sequences, FiniteSets, TLC

\* ------------------------------------------------------------------ bounds
MaxEvents == 2
MaxTime == 2
MaxOps == 1
MaxCount == 2
MaxInterval == 1
MaxPos == 2
MaxCmds == 2

\* --------------------------------------------------------------- universe
Owner == "owner"
Users == {"owner", "u1", "u2"}
None == "none"

Kinds == {"channel_delete", "channel_create", "role_delete", "ban", "kick", "webhook_create"}

Modes == {"jail", "strip", "ban"}

Codes == {"foo", "bar"}

\* guild.channels, in the order the library lists them, and each one's type
ChannelOrder == <<"c_text", "c_voice", "c_cat">>
Channels == {ChannelOrder[i] : i \in 1..Len(ChannelOrder)}
ChannelType(ch) ==
  CASE ch = "c_text" -> "text"
    [] ch = "c_voice" -> "voice"
    [] OTHER -> "category"

VARIABLES
  clock,          \* utcnow(), in seconds
  enabled,        \* cfg["enabled"]
  whitelist,      \* cfg["whitelist"]
  admins,         \* cfg["admins"]
  punishment,     \* cfg["punishment"]
  thresholds,     \* cfg["thresholds"]
  vanity_protect, \* cfg["vanity_protect"]
  vanity_code,    \* cfg["vanity_code"]
  liveCode,       \* the guild's vanity code at the platform
  tracker,        \* ActionTracker._data of the guild: (user, action) -> deque
  tasks,          \* the event handlers started so far, each a coroutine
  roles,          \* member -> positions of the roles held (0, the default role, left out)
  botTop,         \* position of guild.me.top_role
  members,        \* users that are members of the guild
  jailedRole,     \* a role named "Jailed" exists
  hasJailed,      \* members holding the Jailed role
  jailDeny,       \* channels whose overwrite for Jailed denies view/send/...
  ops,            \* commands and outside changes so far (bounded by MaxOps)
  channels,       \* guild.channels: the channels that exist
  ow,             \* channel -> its permission overwrite for the default role
  lockActive,     \* state["lock"]["active"]
  lockChannels,   \* state["lock"]["channels"]: channel -> {view, send, connect}
  webhooks,       \* the webhooks of the text channel
  cmds,           \* the lockdown/unlockdown commands started so far, each a coroutine
  preLock,        \* view/send/connect of every channel when the lockdown in force began
  burst,          \* one _burst_reclaim call, a coroutine, with its own clock
  stasks,         \* the vanity sentinel tasks created so far, each a coroutine
  registry,       \* _vanity_sentinels[guild.id]: a task, or 0
  torn,           \* the cog was unloaded, or the bot removed from the guild
  svcall,         \* the code a running setvanity command is setting, or None
  calls,          \* the calls of ActionTracker.record and count made so far, in order
  scan,           \* one _attributed_actor call, a coroutine, with the audit log it reads
  reverts,        \* the revert of one drift by each path, with the requests it sent
  lastcmd,        \* the command invoked last: its name, its author, whether it was refused
  cfgcall         \* the stored configuration of the guild and what g() returned last

engineVars == <<clock, enabled, whitelist, admins, punishment, thresholds, vanity_protect,
                vanity_code, liveCode, tracker, tasks, roles, botTop, members, jailedRole,
                hasJailed, jailDeny, ops>>

lockVars == <<channels, ow, lockActive, lockChannels, webhooks, cmds, preLock>>

sentinelVars == <<burst, stasks, registry, torn, svcall>>

storeVars == <<cfgcall>>

callVars == <<calls, scan, reverts, lastcmd, storeVars>>

vars == <<engineVars, lockVars, sentinelVars, callVars>>

\* ---------------------------------------------------------------- helpers
Max(S) == CHOOSE x \in S : \A y \in S : y <= x

\* Member.top_role: the highest role held, the default role when none
top_role(rl, u) == Max(rl[u] \cup {0})

is_whitelisted(u) == u \in whitelist \/ u \in admins

\* DEFAULT_THRESHOLDS has one count for four kinds, another for the two create
\* kinds, and one interval; a stored config keeps that shape here.
ThresholdTable(c, t) ==
  [k \in Kinds |->
     [count |-> IF k \in {"channel_create", "webhook_create"} THEN MaxCount + 1 - c ELSE c,
      interval |-> t]]

get_threshold(k) == thresholds[k]

\* ------------------------------------------------------------ ActionTracker
\* a trim that drops one timestamp at most
popleft_once(d, cutoff) ==
  IF d # <<>> /\ Head(d) < cutoff THEN Tail(d) ELSE d

\* "while d and d[0] < cutoff: d.popleft()"
RECURSIVE popleft_while(_, _)
popleft_while(d, cutoff) ==
  IF d # <<>> /\ Head(d) < cutoff THEN popleft_while(Tail(d), cutoff) ELSE d

\* ActionTracker.record: the deque after the call; its length is the result
record(d, now, keep_seconds) == popleft_while(Append(d, now), now - keep_seconds)

\* count that leaves the deque as it is
count_stale(d, now, within) == d

\* ActionTracker.count: the deque after the call; its length is the result
count(d, now, within) == popleft_while(d, now - within)

\* ------------------------------------------------------------------ tasks
IdleTask ==
  [type |-> "none", kind |-> "none", pc |-> "idle", actor |-> None,
   tracked |-> FALSE, n |-> 0, rtime |-> 0, rseq |-> 0,
   logs |-> {}, invoked |-> FALSE, exempt |-> FALSE,
   attempts |-> {}, unguarded |-> {}, to_remove |-> {}, chan |-> 0,
   gate |-> FALSE, want |-> None, current |-> None, ok |-> FALSE, en |-> TRUE]

Started(i) == tasks[i].pc # "idle"
NextSlot == Cardinality({i \in 1..MaxEvents : Started(i)}) + 1
Recorded == Cardinality({i \in 1..MaxEvents : tasks[i].tracked})

\* self.log(guild, title, ...): the handler asks for a log entry
Log(t, title) == [t EXCEPT !.logs = @ \cup {title}]
Finish(t) == [t EXCEPT !.pc = "done"]

\* an external mutation call is issued; remember whether the hierarchy held then
Attempt(t, m, rl) ==
  [t EXCEPT !.attempts = @ \cup {m},
            !.unguarded = IF botTop <= top_role(rl, t.actor) THEN @ \cup {m} ELSE @]


\* ----------------------------------------------------------------- punish
\* the jail loop "for ch in list(guild.channels)" from index i on: the next text or
\* voice channel gets a set_permissions call; after the last one punish logs and ends
JailLoop(t, i, rl) ==
  LET js == {j \in i..Len(ChannelOrder) : ChannelType(ChannelOrder[j]) \in {"text", "voice"}}
  IN IF js = {}
       THEN Finish(Log(t, "Attacker jailed"))
       ELSE [Attempt(t, "set_permissions", rl) EXCEPT
               !.pc = "p_chan", !.chan = CHOOSE j \in js : \A k \in js : j <= k]

\* "# Jail": look the Jailed role up, create it when absent
JailStart(t, rl, jr) ==
  IF jr
    THEN [Attempt(t, "add_roles", rl) EXCEPT !.pc = "p_add"]
    ELSE [Attempt(t, "create_role", rl) EXCEPT !.pc = "p_create"]

\* "# Strip roles": the roles below the bot's top role, the default role left out
StripStart(t, rl, jr) ==
  LET to_remove == {r \in rl[t.actor] : r < botTop}
  IN IF to_remove # {}
       THEN [Attempt(t, "remove_roles", rl) EXCEPT !.pc = "p_strip", !.to_remove = to_remove]
       ELSE JailStart(t, rl, jr)

\* punish without its whitelist and owner guards
punish_unguarded(t) ==
  LET a == t.actor
      t0 == [t EXCEPT !.invoked = TRUE, !.exempt = (is_whitelisted(a) \/ a = Owner)]
  IN IF botTop <= top_role(roles, a) THEN Finish(Log(t0, "Insufficient hierarchy"))
     ELSE IF punishment = "ban" THEN [Attempt(t0, "ban", roles) EXCEPT !.pc = "p_ban"]
     ELSE StripStart(t0, roles, jailedRole)

\* punish, from its entry to its first await
punish(t) ==
  LET a == t.actor
      t0 == [t EXCEPT !.invoked = TRUE, !.exempt = (is_whitelisted(a) \/ a = Owner)]
  IN IF is_whitelisted(a) THEN Finish(Log(t0, "Whitelisted action"))
     ELSE IF a = Owner THEN Finish(Log(t0, "Owner action detected"))
     ELSE IF botTop <= top_role(roles, a) THEN Finish(Log(t0, "Insufficient hierarchy"))
     ELSE IF punishment = "ban" THEN [Attempt(t0, "ban", roles) EXCEPT !.pc = "p_ban"]
     ELSE StripStart(t0, roles, jailedRole)

configVars == <<enabled, whitelist, admins, punishment, thresholds, vanity_protect, vanity_code>>

\* a failed ban ends punish
PunishBanReply_giveup(i) ==
  /\ tasks[i].pc = "p_ban"
  /\ \E ok \in BOOLEAN :
       IF ok
         THEN /\ members' = members \ {tasks[i].actor}
              /\ tasks' = [tasks EXCEPT ![i] = Finish(Log(@, "Banned attacker"))]
         ELSE /\ members' = members
              /\ tasks' = [tasks EXCEPT ![i] = Finish(@)]
  /\ UNCHANGED <<clock, configVars, liveCode, tracker, roles, botTop, jailedRole, hasJailed,
                 jailDeny, ops>>

\* guild.ban returns or raises
PunishBanReply(i) ==
  /\ tasks[i].pc = "p_ban"
  /\ \E ok \in BOOLEAN :
       IF ok
         THEN /\ members' = members \ {tasks[i].actor}
              /\ tasks' = [tasks EXCEPT ![i] = Finish(Log(@, "Banned attacker"))]
         ELSE /\ members' = members
              /\ tasks' = [tasks EXCEPT ![i] = StripStart(@, roles, jailedRole)]
  /\ UNCHANGED <<clock, configVars, liveCode, tracker, roles, botTop, jailedRole, hasJailed,
                 jailDeny, ops>>

\* attacker.remove_roles returns or raises
PunishStripReply(i) ==
  /\ tasks[i].pc = "p_strip"
  /\ \E ok \in BOOLEAN :
       /\ roles' = IF ok THEN [roles EXCEPT ![tasks[i].actor] = @ \ tasks[i].to_remove]
                         ELSE roles
       /\ tasks' = [tasks EXCEPT ![i] = JailStart(@, roles', jailedRole)]
  /\ UNCHANGED <<clock, configVars, liveCode, tracker, botTop, members, jailedRole, hasJailed,
                 jailDeny, ops>>

\* guild.create_role returns or raises
PunishCreateRoleReply(i) ==
  /\ tasks[i].pc = "p_create"
  /\ \E ok \in BOOLEAN :
       IF ok
         THEN /\ jailedRole' = TRUE
              /\ tasks' = [tasks EXCEPT ![i] = [Attempt(@, "add_roles", roles) EXCEPT !.pc = "p_add"]]
         ELSE /\ jailedRole' = jailedRole
              /\ tasks' = [tasks EXCEPT ![i] = Finish(Log(@, "Attacker jailed"))]
  /\ UNCHANGED <<clock, configVars, liveCode, tracker, roles, botTop, members, hasJailed,
                 jailDeny, ops>>

\* attacker.add_roles(jailed) returns or raises; the channel loop starts
PunishAddRoleReply(i) ==
  /\ tasks[i].pc = "p_add"
  /\ \E ok \in BOOLEAN :
       hasJailed' = IF ok THEN hasJailed \cup {tasks[i].actor} ELSE hasJailed
  /\ tasks' = [tasks EXCEPT ![i] = JailLoop(@, 1, roles)]
  /\ UNCHANGED <<clock, configVars, liveCode, tracker, roles, botTop, members, jailedRole,
                 jailDeny, ops>>

\* the try is around the whole loop: the first failing channel ends it
PunishChannelReply_abort(i) ==
  /\ tasks[i].pc = "p_chan"
  /\ \E ok \in BOOLEAN :
       /\ jailDeny' = IF ok THEN jailDeny \cup {ChannelOrder[tasks[i].chan]} ELSE jailDeny
       /\ tasks' = [tasks EXCEPT ![i] =
            IF ok THEN JailLoop(@, tasks[i].chan + 1, roles)
                  ELSE Finish(Log(@, "Attacker jailed"))]
  /\ UNCHANGED <<clock, configVars, liveCode, tracker, roles, botTop, members, jailedRole,
                 hasJailed, ops>>

\* ch.set_permissions(jailed, ...) returns or raises; the loop goes on
PunishChannelReply(i) ==
  /\ tasks[i].pc = "p_chan"
  /\ \E ok \in BOOLEAN :
       jailDeny' = IF ok THEN jailDeny \cup {ChannelOrder[tasks[i].chan]} ELSE jailDeny
  /\ tasks' = [tasks EXCEPT ![i] = JailLoop(@, tasks[i].chan + 1, roles)]
  /\ UNCHANGED <<clock, configVars, liveCode, tracker, roles, botTop, members, jailedRole,
                 hasJailed, ops>>

\* the comparison with the bound left out: "if n > t.count"
threshold_met_strict(n, c) == n > c

\* --------------------------------------------------- anti-nuke listeners
\* "if n >= t.count"
threshold_met(n, c) == n >= c

\* a listener without its "if not cfg.get('enabled')" return
EventArrive_ungated(k) ==
  /\ NextSlot <= MaxEvents
  /\ tasks' = [tasks EXCEPT ![NextSlot] =
       [IdleTask EXCEPT !.type = "event", !.kind = k, !.gate = enabled, !.pc = "attribute"]]
  /\ UNCHANGED <<clock, configVars, liveCode, tracker, roles, botTop, members, jailedRole,
                 hasJailed, jailDeny, ops>>

\* on_guild_channel_delete .. on_webhooks_update, up to the audit-log query: the gate
EventArrive(k) ==
  /\ NextSlot <= MaxEvents
  /\ tasks' = [tasks EXCEPT ![NextSlot] =
       [IdleTask EXCEPT !.type = "event", !.kind = k, !.gate = enabled,
                        !.pc = IF enabled THEN "attribute" ELSE "done"]]
  /\ UNCHANGED <<clock, configVars, liveCode, tracker, roles, botTop, members, jailedRole,
                 hasJailed, jailDeny, ops>>

\* _maybe_flag, from its entry to its first await, for the handlers that call it
\* whatever the actor: what becomes of the handler
maybe_flag_task(t, actor) ==
  LET t1 == [t EXCEPT !.actor = actor]
      th == get_threshold(t.kind)
      d == record(tracker[<<actor, t.kind>>], clock, th.interval)
  IN IF actor = None THEN Finish(Log(t1, "observed: actor unknown"))
     ELSE IF is_whitelisted(actor) THEN Finish(Log(t1, "observed (whitelisted)"))
     ELSE [Log(t1, "observed: count") EXCEPT
             !.pc = "flag_log", !.tracked = TRUE, !.n = Len(d),
             !.rtime = clock, !.rseq = Recorded + 1]

\* _maybe_flag without its "if actor is None" return
maybe_flag_tracker_unknown(t, actor) ==
  IF is_whitelisted(actor)
    THEN tracker
    ELSE [tracker EXCEPT ![<<actor, t.kind>>] =
            record(@, clock, get_threshold(t.kind).interval)]

\* _maybe_flag, the tracker it leaves
maybe_flag_tracker(t, actor) ==
  IF actor = None \/ is_whitelisted(actor)
    THEN tracker
    ELSE [tracker EXCEPT ![<<actor, t.kind>>] =
            record(@, clock, get_threshold(t.kind).interval)]

\* the audit-log query returns: a matching recent entry of a member, or nothing
\* (no entry, a failed query, a user who cannot be fetched as a member)
AttributeReply(i) ==
  /\ tasks[i].pc = "attribute"
  /\ \E actor \in members \cup {None} :
       IF actor = None /\ tasks[i].kind \in {"kick", "webhook_create"}
         THEN \* on_member_remove finds no entry; on_webhooks_update: "if actor:"
              /\ tasks' = [tasks EXCEPT ![i] = Finish(@)]
              /\ tracker' = tracker
         ELSE /\ tasks' = [tasks EXCEPT ![i] = maybe_flag_task(@, actor)]
              /\ tracker' = maybe_flag_tracker(tasks[i], actor)
  /\ UNCHANGED <<clock, configVars, liveCode, roles, botTop, members, jailedRole,
                 hasJailed, jailDeny, ops>>

\* a punishment that empties the actor's window of the kind
FlagLogReply_reset(i) ==
  /\ tasks[i].pc = "flag_log"
  /\ LET met == threshold_met(tasks[i].n, get_threshold(tasks[i].kind).count)
     IN  /\ tasks' = [tasks EXCEPT ![i] = IF met THEN punish(@) ELSE Finish(@)]
         /\ tracker' = IF met THEN [tracker EXCEPT ![<<tasks[i].actor, tasks[i].kind>>] = <<>>]
                             ELSE tracker
  /\ UNCHANGED <<clock, configVars, liveCode, roles, botTop, members, jailedRole,
                 hasJailed, jailDeny, ops>>

\* the observation's log send returns; the threshold decides
FlagLogReply(i) ==
  /\ tasks[i].pc = "flag_log"
  /\ tasks' = [tasks EXCEPT ![i] =
       IF threshold_met(@.n, get_threshold(@.kind).count) THEN punish(@) ELSE Finish(@)]
  /\ UNCHANGED <<clock, configVars, liveCode, tracker, roles, botTop, members, jailedRole,
                 hasJailed, jailDeny, ops>>


\* ------------------------------------------------- vanity guard, event path
\* on_guild_update returning at once in a guild whose anti-nuke is disabled
GuildUpdateArrive_gated ==
  /\ NextSlot <= MaxEvents
  /\ LET go == enabled /\ vanity_protect /\ vanity_code # None /\ liveCode # None
               /\ liveCode # vanity_code
     IN tasks' = [tasks EXCEPT ![NextSlot] =
          [IdleTask EXCEPT !.type = "guild_update", !.kind = "vanity",
                           !.gate = vanity_protect /\ vanity_code # None,
                           !.en = enabled,
                           !.want = IF go THEN vanity_code ELSE None,
                           !.current = IF go THEN liveCode ELSE None,
                           !.pc = IF go THEN "gu_audit" ELSE "done"]]
  /\ UNCHANGED <<clock, configVars, liveCode, tracker, roles, botTop, members, jailedRole,
                 hasJailed, jailDeny, ops>>

\* on_guild_update, up to the audit-log query
GuildUpdateArrive ==
  /\ NextSlot <= MaxEvents
  /\ LET go == vanity_protect /\ vanity_code # None /\ liveCode # None /\ liveCode # vanity_code
     IN tasks' = [tasks EXCEPT ![NextSlot] =
          [IdleTask EXCEPT !.type = "guild_update", !.kind = "vanity",
                           !.gate = vanity_protect /\ vanity_code # None,
                           !.en = enabled,
                           !.want = IF go THEN vanity_code ELSE None,
                           !.current = IF go THEN liveCode ELSE None,
                           !.pc = IF go THEN "gu_audit" ELSE "done"]]
  /\ UNCHANGED <<clock, configVars, liveCode, tracker, roles, botTop, members, jailedRole,
                 hasJailed, jailDeny, ops>>

\* the guild_update audit scan ends: a changer that is a member, or none; the direct
\* set_vanity_code call is issued
GuildUpdateAuditReply(i) ==
  /\ tasks[i].pc = "gu_audit"
  /\ \E actor \in members \cup {None} :
       tasks' = [tasks EXCEPT ![i] = [@ EXCEPT !.actor = actor, !.pc = "gu_set"]]
  /\ UNCHANGED <<clock, configVars, liveCode, tracker, roles, botTop, members, jailedRole,
                 hasJailed, jailDeny, ops>>

\* set_vanity_code returns: reverted, or _burst_reclaim starts
GuildUpdateSetReply(i) ==
  /\ tasks[i].pc = "gu_set"
  /\ \E ok \in BOOLEAN :
       IF ok
         THEN /\ liveCode' = tasks[i].want
              /\ tasks' = [tasks EXCEPT ![i] =
                   [Log(@, "Vanity Guard: Reverted") EXCEPT !.ok = TRUE, !.pc = "gu_log"]]
         ELSE /\ liveCode' = liveCode
              /\ tasks' = [tasks EXCEPT ![i] = [@ EXCEPT !.pc = "gu_burst"]]
  /\ UNCHANGED <<clock, configVars, tracker, roles, botTop, members, jailedRole,
                 hasJailed, jailDeny, ops>>

\* _burst_reclaim returns its result
GuildUpdateBurstReply(i) ==
  /\ tasks[i].pc = "gu_burst"
  /\ \E ok \in BOOLEAN :
       /\ liveCode' = IF ok THEN tasks[i].want ELSE liveCode
       /\ tasks' = [tasks EXCEPT ![i] =
            [Log(@, "Vanity Guard: Reverted") EXCEPT !.ok = ok, !.pc = "gu_log"]]
  /\ UNCHANGED <<clock, configVars, tracker, roles, botTop, members, jailedRole,
                 hasJailed, jailDeny, ops>>

\* the changer is punished only when the revert succeeded
vanity_classify_onlyok(t) ==
  IF t.actor = None \/ ~t.ok THEN Finish(t)
  ELSE IF ~is_whitelisted(t.actor) /\ t.actor # Owner THEN punish(t)
  ELSE [Finish(Log(t, "Vanity Guard: Change by whitelisted/owner")) EXCEPT !.exempt = TRUE]

\* "if actor is not None": punish the changer, or log the exempt one
vanity_classify(t) ==
  IF t.actor = None THEN Finish(t)
  ELSE IF ~is_whitelisted(t.actor) /\ t.actor # Owner THEN punish(t)
  ELSE [Finish(Log(t, "Vanity Guard: Change by whitelisted/owner")) EXCEPT !.exempt = TRUE]

\* the revert's log send returns
GuildUpdateLogReply(i) ==
  /\ tasks[i].pc = "gu_log"
  /\ tasks' = [tasks EXCEPT ![i] = vanity_classify(@)]
  /\ UNCHANGED <<clock, configVars, liveCode, tracker, roles, botTop, members, jailedRole,
                 hasJailed, jailDeny, ops>>

\* --------------------------------------------------------------- commands
\* a gate that lets whitelisted users in as well
cog_check_whitelist(invoker) == invoker = Owner \/ invoker \in admins \cup whitelist

\* the gate of every command: the guild's owner and the wladmins
cog_check(invoker) == invoker = Owner \/ invoker \in admins

\* _owner_only letting the wladmins in as well
owner_only_admins(invoker) == invoker = Owner \/ invoker \in admins

\* _owner_only: ctx.author.id == ctx.guild.owner_id
owner_only(invoker) == invoker = Owner

guildVars == <<roles, botTop, members, jailedRole, hasJailed, jailDeny>>

antinuke_enable(invoker) ==
  /\ ops < MaxOps
  /\ cog_check(invoker)
  /\ enabled' = TRUE
  /\ ops' = ops + 1
  /\ UNCHANGED <<clock, whitelist, admins, punishment, thresholds, vanity_protect,
                 vanity_code, liveCode, tracker, tasks, guildVars>>

antinuke_disable(invoker) ==
  /\ ops < MaxOps
  /\ cog_check(invoker)
  /\ enabled' = FALSE
  /\ ops' = ops + 1
  /\ UNCHANGED <<clock, whitelist, admins, punishment, thresholds, vanity_protect,
                 vanity_code, liveCode, tracker, tasks, guildVars>>

wl_add(invoker, member) ==
  /\ ops < MaxOps
  /\ cog_check(invoker)
  /\ whitelist' = whitelist \cup {member}
  /\ ops' = ops + 1
  /\ UNCHANGED <<clock, enabled, admins, punishment, thresholds, vanity_protect,
                 vanity_code, liveCode, tracker, tasks, guildVars>>

wl_remove(invoker, member) ==
  /\ ops < MaxOps
  /\ cog_check(invoker)
  /\ whitelist' = whitelist \ {member}
  /\ ops' = ops + 1
  /\ UNCHANGED <<clock, enabled, admins, punishment, thresholds, vanity_protect,
                 vanity_code, liveCode, tracker, tasks, guildVars>>

wladmin_add(invoker, member) ==
  /\ ops < MaxOps
  /\ cog_check(invoker)
  /\ owner_only(invoker)
  /\ admins' = admins \cup {member}
  /\ ops' = ops + 1
  /\ UNCHANGED <<clock, enabled, whitelist, punishment, thresholds, vanity_protect,
                 vanity_code, liveCode, tracker, tasks, guildVars>>

wladmin_remove(invoker, member) ==
  /\ ops < MaxOps
  /\ cog_check(invoker)
  /\ owner_only(invoker)
  /\ admins' = admins \ {member}
  /\ ops' = ops + 1
  /\ UNCHANGED <<clock, enabled, whitelist, punishment, thresholds, vanity_protect,
                 vanity_code, liveCode, tracker, tasks, guildVars>>

\* ------------------------------------------------------- the outside world
\* utcnow() moves on
Tick ==
  /\ clock < MaxTime
  /\ clock' = clock + 1
  /\ UNCHANGED <<configVars, liveCode, tracker, tasks, guildVars, ops>>

\* somebody edits a member's roles, or the bot's: top_role is read live
RoleUpdate ==
  /\ ops < MaxOps
  /\ ops' = ops + 1
  /\ \/ \E u \in Users \ {Owner} : \E S \in SUBSET (1..MaxPos) :
          /\ S # roles[u]
          /\ roles' = [roles EXCEPT ![u] = S]
          /\ botTop' = botTop
     \/ \E p \in 0..MaxPos :
          /\ p # botTop
          /\ botTop' = p
          /\ roles' = roles
  /\ UNCHANGED <<clock, configVars, liveCode, tracker, tasks, members, jailedRole,
                 hasJailed, jailDeny>>

\* somebody changes or drops the guild's vanity code
VanityChange ==
  /\ ops < MaxOps
  /\ ops' = ops + 1
  /\ \E c \in (Codes \cup {None}) \ {liveCode} : liveCode' = c
  /\ UNCHANGED <<clock, configVars, tracker, tasks, guildVars>>

\* ---------------------------------------------------------------- lockdown
Tri == {"allow", "deny", "inherit"}

\* clamp_bool: None stays None, anything else becomes a bool
clamp_bool(x) == IF x = "inherit" THEN "inherit" ELSE IF x = "allow" THEN "allow" ELSE "deny"

\* prev = {"view": ..., "send": ..., "connect": ...}
Prev(o) == [view |-> o.view, send |-> o.send, connect |-> o.connect]

\* what lock's set_permissions(everyone, ...=False) leaves of overwrite o, by channel type
LockDeny(ch, o) ==
  CASE ChannelType(ch) = "text" ->
         [o EXCEPT !.view = "deny", !.send = "deny", !.react = "deny"]
    [] ChannelType(ch) = "voice" ->
         [o EXCEPT !.view = "deny", !.connect = "deny", !.speak = "deny", !.stream = "deny"]
    [] OTHER ->
         [o EXCEPT !.view = "deny", !.send = "deny", !.connect = "deny"]

\* unlock unsetting the three permissions instead of writing the captured values back
UnlockOverwrite_unset(ch, o, prev) ==
  [o EXCEPT !.view = "inherit", !.send = "inherit", !.connect = "inherit"]

\* the overwrite unlock writes back: the current one with the captured values set
UnlockOverwrite(ch, o, prev) ==
  LET o1 == [o EXCEPT !.view = clamp_bool(prev.view)]
      o2 == IF ChannelType(ch) \in {"text", "category"}
              THEN [o1 EXCEPT !.send = clamp_bool(prev.send)] ELSE o1
  IN IF ChannelType(ch) \in {"voice", "category"}
       THEN [o2 EXCEPT !.connect = clamp_bool(prev.connect)] ELSE o2

EmptyMap == [c \in {} |-> Prev([view |-> "inherit", send |-> "inherit", connect |-> "inherit"])]

IdleCmd ==
  [cmd |-> "none", pc |-> "idle", bypass |-> {}, list |-> <<>>, idx |-> 0,
   changed |-> EmptyMap, write |-> None, whlist |-> <<>>,
   refused |-> FALSE, activeAtStart |-> FALSE, edits |-> 0, okSet |-> {}, nested |-> FALSE, deleted |-> 0]

CmdStarted(c) == cmds[c].pc # "idle"
NextCmd == Cardinality({c \in 1..MaxCmds : CmdStarted(c)}) + 1

\* an accepted lock command that has not yet stored its snapshot
Locking(c) == cmds[c].cmd = "lock" /\ cmds[c].pc \in {"l_reply", "l_edit"}

\* the channels of a sequence that exist, in order
ExistingOf(seq) == SelectSeq(seq, LAMBDA ch : ch \in channels)

\* lock's loop "for ch in list(guild.channels)" from index i on, owNow the overwrites
\* as they are: captures the next channel not bypassed and issues its edit, or, past
\* the last one, goes on to the webhooks
LockLoop(t, i, owNow) ==
  LET js == {j \in i..Len(t.list) : t.list[j] \notin t.bypass}
  IN IF js # {}
       THEN LET j == CHOOSE j \in js : \A k \in js : j <= k
                ch == t.list[j]
            IN [t EXCEPT !.pc = "l_edit", !.idx = j, !.edits = @ + 1,
                         !.changed = (ch :> Prev(owNow[ch])) @@ @]
       ELSE IF "c_text" \in channels
              THEN [t EXCEPT !.pc = "l_whlist", !.idx = 0]
              ELSE [t EXCEPT !.pc = "done", !.idx = 0]

\* lock stores its snapshot once the loop is over
LockStored(t) == t.pc \in {"l_whlist", "done"}

\* lock without its "if lock_state.get('active')" return
LockArrive_unguarded(invoker, bypass) ==
  /\ NextCmd <= MaxCmds
  /\ cog_check(invoker)
  /\ cmds' = [cmds EXCEPT ![NextCmd] =
       [IdleCmd EXCEPT !.cmd = "lock", !.bypass = bypass, !.activeAtStart = lockActive,
                       !.nested = \E c \in 1..MaxCmds : Locking(c),
                       !.pc = "l_reply"]]
  /\ preLock' = preLock
  /\ UNCHANGED <<channels, ow, lockActive, lockChannels, webhooks>>

\* lock, up to the "Locking server" reply
LockArrive(invoker, bypass) ==
  /\ NextCmd <= MaxCmds
  /\ cog_check(invoker)
  /\ cmds' = [cmds EXCEPT ![NextCmd] =
       [IdleCmd EXCEPT !.cmd = "lock", !.bypass = bypass, !.activeAtStart = lockActive,
                       !.refused = lockActive,
                       !.nested = ~lockActive /\ \E c \in 1..MaxCmds : Locking(c),
                       !.pc = IF lockActive THEN "done" ELSE "l_reply"]]
  /\ preLock' = IF ~lockActive /\ ~\E c \in 1..MaxCmds : Locking(c)
                  THEN [ch \in Channels |-> Prev(ow[ch])] ELSE preLock
  /\ UNCHANGED <<channels, ow, lockActive, lockChannels, webhooks>>

\* the reply is sent: the loop over the channels starts
LockReplySent(c) ==
  /\ cmds[c].pc = "l_reply"
  /\ LET t == LockLoop([cmds[c] EXCEPT !.list = ExistingOf(ChannelOrder)], 1, ow)
     IN /\ cmds' = [cmds EXCEPT ![c] = t]
        /\ lockActive' = IF LockStored(t) THEN TRUE ELSE lockActive
        /\ lockChannels' = IF LockStored(t) THEN t.changed ELSE lockChannels
  /\ UNCHANGED <<channels, ow, webhooks, preLock>>

\* a channel's set_permissions returns or raises; the loop goes on
LockEditReply(c) ==
  /\ cmds[c].pc = "l_edit"
  /\ \E ok \in BOOLEAN :
       LET ch == cmds[c].list[cmds[c].idx]
           done == ok /\ ch \in channels
           owNow == IF done THEN [ow EXCEPT ![ch] = LockDeny(ch, @)] ELSE ow
           t == LockLoop([cmds[c] EXCEPT !.okSet = IF done THEN @ \cup {ch} ELSE @],
                         cmds[c].idx + 1, owNow)
       IN /\ ow' = owNow
          /\ cmds' = [cmds EXCEPT ![c] = t]
          /\ lockActive' = IF LockStored(t) THEN TRUE ELSE lockActive
          /\ lockChannels' = IF LockStored(t) THEN t.changed ELSE lockChannels
  /\ UNCHANGED <<channels, webhooks, preLock>>

\* ch.webhooks() returns the text channel's webhooks, or raises
LockWebhooksReply(c) ==
  /\ cmds[c].pc = "l_whlist"
  /\ \E ok \in BOOLEAN :
       LET whs == IF ok THEN webhooks ELSE {}
       IN cmds' = [cmds EXCEPT ![c] =
            IF whs = {} THEN [@ EXCEPT !.pc = "done"]
            ELSE [@ EXCEPT !.pc = "l_whdel", !.whlist = <<CHOOSE w \in whs : TRUE>>]]
  /\ UNCHANGED <<channels, ow, lockActive, lockChannels, webhooks, preLock>>

\* wh.delete returns or raises
LockWebhookDeleteReply(c) ==
  /\ cmds[c].pc = "l_whdel"
  /\ \E ok \in BOOLEAN :
       LET gone == ok /\ cmds[c].whlist[1] \in webhooks
       IN /\ webhooks' = IF gone THEN webhooks \ {cmds[c].whlist[1]} ELSE webhooks
          /\ cmds' = [cmds EXCEPT ![c] =
               [@ EXCEPT !.pc = "done", !.whlist = <<>>, !.deleted = IF gone THEN @ + 1 ELSE @]]
  /\ UNCHANGED <<channels, ow, lockActive, lockChannels, preLock>>

\* unlock's loop over the snapshot's items from index i on: the next channel that
\* still exists gets its overwrite written back; past the last one unlock clears
UnlockLoop(t, i, owNow) ==
  LET js == {j \in i..Len(t.list) : t.list[j] \in channels}
  IN IF js # {}
       THEN LET j == CHOOSE j \in js : \A k \in js : j <= k
                ch == t.list[j]
            IN [t EXCEPT !.pc = "u_edit", !.idx = j, !.edits = @ + 1,
                         !.write = UnlockOverwrite(ch, owNow[ch], t.changed[ch])]
       ELSE [t EXCEPT !.pc = "done", !.idx = 0, !.write = None]

\* unlock without its "if not lock_state.get('active')" return
UnlockArrive_unguarded(invoker) ==
  /\ NextCmd <= MaxCmds
  /\ cog_check(invoker)
  /\ LET t0 == [IdleCmd EXCEPT !.cmd = "unlock", !.activeAtStart = lockActive]
         t == UnlockLoop([t0 EXCEPT !.changed = lockChannels,
                                    !.list = SelectSeq(ChannelOrder,
                                       LAMBDA ch : ch \in DOMAIN lockChannels)],
                         1, ow)
     IN /\ cmds' = [cmds EXCEPT ![NextCmd] = t]
        /\ lockActive' = IF t.pc = "done" THEN FALSE ELSE lockActive
        /\ lockChannels' = IF t.pc = "done" THEN EmptyMap ELSE lockChannels
  /\ UNCHANGED <<channels, ow, webhooks, preLock>>

\* unlock, up to its first set_permissions
UnlockArrive(invoker) ==
  /\ NextCmd <= MaxCmds
  /\ cog_check(invoker)
  /\ LET t0 == [IdleCmd EXCEPT !.cmd = "unlock", !.activeAtStart = lockActive,
                               !.refused = ~lockActive]
         t == IF ~lockActive THEN [t0 EXCEPT !.pc = "done"]
              ELSE UnlockLoop([t0 EXCEPT !.changed = lockChannels,
                                         !.list = SelectSeq(ChannelOrder,
                                            LAMBDA ch : ch \in DOMAIN lockChannels)],
                              1, ow)
     IN /\ cmds' = [cmds EXCEPT ![NextCmd] = t]
        /\ lockActive' = IF ~t.refused /\ t.pc = "done" THEN FALSE ELSE lockActive
        /\ lockChannels' = IF ~t.refused /\ t.pc = "done" THEN EmptyMap ELSE lockChannels
  /\ UNCHANGED <<channels, ow, webhooks, preLock>>

\* a channel's set_permissions(overwrite=ow) returns or raises; the loop goes on
UnlockEditReply(c) ==
  /\ cmds[c].pc = "u_edit"
  /\ \E ok \in BOOLEAN :
       LET ch == cmds[c].list[cmds[c].idx]
           done == ok /\ ch \in channels
           owNow == IF done THEN [ow EXCEPT ![ch] = cmds[c].write] ELSE ow
           t == UnlockLoop([cmds[c] EXCEPT !.okSet = IF done THEN @ \cup {ch} ELSE @],
                           cmds[c].idx + 1, owNow)
       IN /\ ow' = owNow
          /\ cmds' = [cmds EXCEPT ![c] = t]
          /\ lockActive' = IF t.pc = "done" THEN FALSE ELSE lockActive
          /\ lockChannels' = IF t.pc = "done" THEN EmptyMap ELSE lockChannels
  /\ UNCHANGED <<channels, webhooks, preLock>>

\* somebody deletes a channel
ChannelDelete(ch) ==
  /\ ops < MaxOps
  /\ ch \in channels
  /\ channels' = channels \ {ch}
  /\ ops' = ops + 1
  /\ UNCHANGED <<ow, lockActive, lockChannels, webhooks, cmds, preLock>>

\* the three values in another order, so that the channels start different
Rot(x) == IF x = "allow" THEN "deny" ELSE IF x = "deny" THEN "inherit" ELSE "allow"

\* no lockdown, one webhook, and overwrites v = <<view, send, connect>> on the text
\* channel, rotated once for the voice channel and twice for the category
InitLockState(v) ==
  /\ channels = Channels
  /\ ow = [ch \in Channels |->
             LET r(x) == IF ch = "c_text" THEN x ELSE IF ch = "c_voice" THEN Rot(x) ELSE Rot(Rot(x))
             IN [view |-> r(v[1]), send |-> r(v[2]), connect |-> r(v[3]),
                 react |-> r(v[2]), speak |-> r(v[3]), stream |-> r(v[3])]]
  /\ lockActive = FALSE
  /\ lockChannels = EmptyMap
  /\ webhooks = {"wh1"}
  /\ cmds = [c \in 1..MaxCmds |-> IdleCmd]
  /\ preLock = [ch \in Channels |->
             LET r(x) == IF ch = "c_text" THEN x ELSE IF ch = "c_voice" THEN Rot(x) ELSE Rot(Rot(x))
             IN [view |-> r(v[1]), send |-> r(v[2]), connect |-> r(v[3])]]

\* ----------------------------------------------------------- burst reclaim
\* _burst_reclaim's times, in eighths of a millisecond: every delay is a whole number
InitialDelay == 400
MaxDelay == 2000
BurstWindow == 64000

\* what one set_vanity_code call may take, and what a sleep may take beyond its delay
Latencies == {0, 6000}
Oversleep == {0, 100}

\* set_vanity_code returns True, returns False, or lets an exception through that is
\* none of TypeError, Forbidden, HTTPException
SetOutcomes == {"ok", "fail", "raise"}

Min(a, b) == IF a <= b THEN a ELSE b

\* "delay = min(delay * 1.5, 0.25)"
next_delay(d) == Min((d * 3) \div 2, MaxDelay)

IdleBurst ==
  [pc |-> "idle", now |-> 0, deadline |-> 0, delay |-> 0, started |-> 0, late |-> 0,
   slept |-> <<>>, succeeded |-> 0, afterSuccess |-> 0, result |-> None]

\* "while utcnow() < deadline": the next attempt is issued, or the call returns False
burst_loop(b) ==
  IF b.now < b.deadline
    THEN [b EXCEPT !.pc = "attempt", !.started = @ + 1,
                   !.late = IF b.now < b.deadline THEN @ ELSE @ + 1,
                   !.afterSuccess = IF b.succeeded > 0 THEN @ + 1 ELSE @]
    ELSE [b EXCEPT !.pc = "done", !.result = "False"]

\* the attempt's result handled without the "if ok: return True"
burst_attempt_done_noreturn(b, outcome) ==
  IF outcome = "raise" THEN [b EXCEPT !.pc = "done", !.result = "raise"]
  ELSE [b EXCEPT !.pc = "sleep", !.succeeded = IF outcome = "ok" THEN @ + 1 ELSE @]

\* "ok = await self.set_vanity_code(...); if ok: return True; await asyncio.sleep(delay)"
burst_attempt_done(b, outcome) ==
  CASE outcome = "ok" -> [b EXCEPT !.pc = "done", !.result = "True", !.succeeded = @ + 1]
    [] outcome = "raise" -> [b EXCEPT !.pc = "done", !.result = "raise"]
    [] OTHER -> [b EXCEPT !.pc = "sleep"]

\* the sleep is over before the delay is raised
burst_slept_first(b) ==
  [b EXCEPT !.slept = Append(@, next_delay(b.delay)), !.delay = next_delay(b.delay)]

\* the sleep is over: "delay = min(delay * 1.5, 0.25)"
burst_slept(b) ==
  [b EXCEPT !.slept = Append(@, b.delay), !.delay = next_delay(b.delay)]

\* _burst_reclaim is called: deadline, first delay, first pass of the loop
BurstStart ==
  /\ burst.pc = "idle"
  /\ burst' = burst_loop([burst EXCEPT !.deadline = burst.now + BurstWindow,
                                       !.delay = InitialDelay])
  /\ UNCHANGED <<engineVars, lockVars, stasks, registry, torn, svcall, callVars>>

\* set_vanity_code is over, some time later
BurstAttemptReply ==
  /\ burst.pc = "attempt"
  /\ \E outcome \in SetOutcomes, l \in Latencies :
       burst' = burst_attempt_done([burst EXCEPT !.now = @ + l], outcome)
  /\ UNCHANGED <<engineVars, lockVars, stasks, registry, torn, svcall, callVars>>

\* asyncio.sleep(delay) is over, no sooner than the delay: the loop goes on
BurstSleepReply ==
  /\ burst.pc = "sleep"
  /\ \E o \in Oversleep :
       burst' = burst_loop(burst_slept([burst EXCEPT !.now = @ + burst.delay + o]))
  /\ UNCHANGED <<engineVars, lockVars, stasks, registry, torn, svcall, callVars>>

\* --------------------------------------------------------- vanity sentinel
\* the clock counts periods of ten seconds: a sentinel stays elevated for two of them
ElevatedTicks == 2
\* the window the sentinel gives its burst reclaim, in seconds
SentinelBurstSeconds == 8
MaxTasks == 2

sentinelRest ==
  <<enabled, whitelist, admins, punishment, thresholds, tracker, tasks, roles, botTop,
    members, jailedRole, hasJailed, jailDeny, ops, lockVars, burst, callVars>>

\* a task asyncio.create_task has made and not run yet; the fields from current to
\* decidedAt record what the task did in its current pass of the loop, err the
\* exception its last pass ended with, until the next fetch is answered
NewSentinel ==
  [pc |-> "start", want |-> None, elevated_until |-> -1, cancelReq |-> FALSE,
   current |-> "unfetched", setWant |-> None, direct |-> "none", burstWant |-> None,
   burstSecs |-> 0, slept |-> 0, decidedAt |-> -1, err |-> "none",
   handledAt |-> -1, endedBy |-> "none", afterTorn |-> FALSE]

\* the coroutine is over: what is kept is how it ended, and whether it had handled a
\* drift and made a call after a teardown
Ended(t, how) ==
  [NewSentinel EXCEPT !.pc = "done", !.endedBy = how, !.err = t.err,
                      !.handledAt = t.handledAt, !.afterTorn = t.afterTorn]

\* the task issues a fetch or a set-code call
Issued(t) == [t EXCEPT !.afterTorn = @ \/ torn # None]

\* the handler ends the task instead of sleeping
on_exception_crash(t, where) ==
  Ended([t EXCEPT !.err = where], "crash")

\* "except Exception: await asyncio.sleep(1.0)"
on_exception(t, where) ==
  [t EXCEPT !.pc = "nap", !.err = where, !.slept = 1000]

\* the loop's top without the look at the configuration after the first pass
sentinel_iter_stale(t, cfgerr) ==
  LET t0 == [t EXCEPT !.current = "unfetched", !.setWant = None, !.direct = "none",
                      !.burstWant = None, !.burstSecs = 0, !.slept = 0,
                      !.decidedAt = -1]
  IN  IF cfgerr THEN on_exception(t0, "config")
      ELSE IF t.pc = "start" /\ (~vanity_protect \/ vanity_code = None)
        THEN Ended(t0, "config")
      ELSE Issued([t0 EXCEPT !.pc = "fetch",
                             !.want = IF t.pc = "start" THEN vanity_code ELSE @])

\* the loop's top: the configuration is read again, the task returns when it asks for
\* no protection, and the fetch is issued otherwise
sentinel_iter(t, cfgerr) ==
  LET t0 == [t EXCEPT !.current = "unfetched", !.setWant = None, !.direct = "none",
                      !.burstWant = None, !.burstSecs = 0, !.slept = 0,
                      !.decidedAt = -1]
  IN  IF cfgerr THEN on_exception(t0, "config")
      ELSE IF ~vanity_protect \/ vanity_code = None
        THEN Ended([t0 EXCEPT !.err = "none"], "config")
      ELSE Issued([t0 EXCEPT !.pc = "fetch", !.want = vanity_code])

\* interval control that stays fast once the sentinel was elevated
interval_control_sticky(t) ==
  LET fast == t.elevated_until # -1
  IN  [t EXCEPT !.pc = "sleep", !.decidedAt = clock, !.slept = IF fast THEN 250 ELSE 2000]

\* "fast = elevated_until and now < elevated_until; sleep(0.25 if fast else 2.0)"
interval_control(t) ==
  LET fast == t.elevated_until # -1 /\ clock < t.elevated_until
  IN  [t EXCEPT !.pc = "sleep", !.decidedAt = clock, !.slept = IF fast THEN 250 ELSE 2000]

\* a pass that takes no drift for one
sentinel_fetched_ignore(t, cur) ==
  interval_control([t EXCEPT !.current = cur, !.err = "none"])

\* "if current and current != want: ok = await self.set_vanity_code(guild, want)"
sentinel_fetched(t, cur) ==
  LET t1 == [t EXCEPT !.current = cur, !.err = "none"]
  IN  IF cur # None /\ cur # t.want
        THEN Issued([t1 EXCEPT !.pc = "set", !.setWant = t.want])
        ELSE interval_control(t1)

\* "elevated_until = utcnow() + timedelta(seconds=20)", then the log
drift_handled(t) ==
  [t EXCEPT !.pc = "log", !.elevated_until = clock + ElevatedTicks, !.handledAt = clock]

\* the burst reclaim is run whatever the direct call returned
sentinel_set_done_always(t, outcome) ==
  LET t1 == [t EXCEPT !.direct = outcome]
  IN  IF outcome = "raise" THEN on_exception(t1, "set")
      ELSE Issued([t1 EXCEPT !.pc = "burst", !.burstWant = t.want,
                             !.burstSecs = SentinelBurstSeconds])

\* "if not ok: await self._burst_reclaim(guild, want, seconds=8.0)"
sentinel_set_done(t, outcome) ==
  LET t1 == [t EXCEPT !.direct = outcome]
  IN  CASE outcome = "ok" -> drift_handled(t1)
        [] outcome = "fail" -> Issued([t1 EXCEPT !.pc = "burst", !.burstWant = t.want,
                                                 !.burstSecs = SentinelBurstSeconds])
        [] OTHER -> on_exception(t1, "set")

\* the burst reclaim is over: its result is not looked at
sentinel_burst_done(t, outcome) ==
  IF outcome = "raise" THEN on_exception(t, "burst") ELSE drift_handled(t)

\* self.log is over
sentinel_logged(t, raised) ==
  IF raised THEN on_exception(t, "log") ELSE interval_control(t)

\* a task that waits and has not been cancelled
Waiting(i, pcs) ==
  /\ i \in 1..Len(stasks)
  /\ stasks[i].pc \in pcs
  /\ ~stasks[i].cancelReq

\* the task runs for the first time, or its sleep or its nap is over
SentinelWake(i) ==
  /\ Waiting(i, {"start", "sleep", "nap"})
  /\ \E cfgerr \in BOOLEAN :
       stasks' = [stasks EXCEPT ![i] = sentinel_iter(stasks[i], cfgerr)]
  /\ UNCHANGED <<clock, vanity_protect, vanity_code, liveCode, registry, torn, svcall,
                 sentinelRest>>

\* _fetch_current_vanity returns the guild's code when it has one, and None when it
\* has none, whether the request for the invite fails or not
SentinelFetchReply(i) ==
  /\ Waiting(i, {"fetch"})
  /\ stasks' = [stasks EXCEPT ![i] = sentinel_fetched(stasks[i], liveCode)]
  /\ UNCHANGED <<clock, vanity_protect, vanity_code, liveCode, registry, torn, svcall,
                 sentinelRest>>

\* the direct set_vanity_code is over
SentinelSetReply(i) ==
  /\ Waiting(i, {"set"})
  /\ \E outcome \in SetOutcomes :
       /\ stasks' = [stasks EXCEPT ![i] = sentinel_set_done(stasks[i], outcome)]
       /\ liveCode' = IF outcome = "ok" THEN stasks[i].want ELSE liveCode
  /\ UNCHANGED <<clock, vanity_protect, vanity_code, registry, torn, svcall, sentinelRest>>

\* _burst_reclaim is over: it set the code, gave up, or let an exception through
SentinelBurstReply(i) ==
  /\ Waiting(i, {"burst"})
  /\ \E outcome \in SetOutcomes :
       /\ stasks' = [stasks EXCEPT ![i] = sentinel_burst_done(stasks[i], outcome)]
       /\ liveCode' = IF outcome = "ok" THEN stasks[i].want ELSE liveCode
  /\ UNCHANGED <<clock, vanity_protect, vanity_code, registry, torn, svcall, sentinelRest>>

\* self.log is over: sent, dropped, or get_log_channel's save raised
SentinelLogReply(i) ==
  /\ Waiting(i, {"log"})
  /\ \E raised \in BOOLEAN :
       stasks' = [stasks EXCEPT ![i] = sentinel_logged(stasks[i], raised)]
  /\ UNCHANGED <<clock, vanity_protect, vanity_code, liveCode, registry, torn, svcall,
                 sentinelRest>>

\* CancelledError reaches the task at the await it is at: "except
\* asyncio.CancelledError: return", or out of the nap in the other handler
SentinelCancelled(i) ==
  /\ i \in 1..Len(stasks)
  /\ stasks[i].pc # "done"
  /\ stasks[i].cancelReq
  /\ stasks' = [stasks EXCEPT ![i] = Ended([stasks[i] EXCEPT !.err = "none"], "cancel")]
  /\ UNCHANGED <<clock, vanity_protect, vanity_code, liveCode, registry, torn, svcall,
                 sentinelRest>>

\* a task is made whatever the registry holds
ensure_always_start(protect, code) ==
  IF ~protect \/ code = None
    THEN [stasks |-> IF registry # 0 /\ stasks[registry].pc # "done"
                       THEN [stasks EXCEPT ![registry].cancelReq = TRUE] ELSE stasks,
          registry |-> 0]
    ELSE [stasks |-> Append(stasks, NewSentinel), registry |-> Len(stasks) + 1]

\* _ensure_vanity_sentinel, which has no await: the task list and the registry after it
ensure_vanity_sentinel(protect, code) ==
  IF ~protect \/ code = None
    THEN [stasks |-> IF registry # 0 /\ stasks[registry].pc # "done"
                       THEN [stasks EXCEPT ![registry].cancelReq = TRUE] ELSE stasks,
          registry |-> 0]
  ELSE IF registry # 0 /\ stasks[registry].pc # "done"
    THEN [stasks |-> stasks, registry |-> registry]
  ELSE [stasks |-> Append(stasks, NewSentinel), registry |-> Len(stasks) + 1]

\* on_ready, for this guild, or on_guild_join
Ensure ==
  /\ LET r == ensure_vanity_sentinel(vanity_protect, vanity_code)
     IN  /\ Len(r.stasks) <= MaxTasks
         /\ stasks' = r.stasks
         /\ registry' = r.registry
  /\ UNCHANGED <<clock, vanity_protect, vanity_code, liveCode, torn, svcall, sentinelRest>>

\* the setvanity command up to its await of set_vanity_code
SetVanity ==
  /\ svcall = None
  /\ \E code \in Codes :
       LET r == ensure_vanity_sentinel(TRUE, code)
       IN  /\ Len(r.stasks) <= MaxTasks
           /\ vanity_protect' = TRUE
           /\ vanity_code' = code
           /\ stasks' = r.stasks
           /\ registry' = r.registry
           /\ svcall' = code
  /\ UNCHANGED <<clock, liveCode, torn, sentinelRest>>

\* the command's set_vanity_code is over
SetVanityReply ==
  /\ svcall # None
  /\ \E outcome \in SetOutcomes :
       liveCode' = IF outcome = "ok" THEN svcall ELSE liveCode
  /\ svcall' = None
  /\ UNCHANGED <<clock, vanity_protect, vanity_code, stasks, registry, torn, sentinelRest>>

\* the stored configuration stops asking for protection: no command of the cog does
\* this, the store behind load_guild_config can
ProtectionOff ==
  /\ vanity_protect
  /\ vanity_code # None
  /\ \/ vanity_protect' = FALSE /\ vanity_code' = vanity_code
     \/ vanity_protect' = vanity_protect /\ vanity_code' = None
  /\ UNCHANGED <<clock, liveCode, stasks, registry, torn, svcall, sentinelRest>>

\* the extension is unloaded, or the bot leaves the guild.  The cog has no cog_unload
\* and no on_guild_remove: nothing of it runs.  A cog loaded again starts with an
\* empty registry.
Teardown ==
  /\ torn = None
  /\ \E k \in {"unload", "remove"} :
       /\ torn' = k
       /\ registry' = IF k = "unload" THEN 0 ELSE registry
  /\ UNCHANGED <<clock, vanity_protect, vanity_code, liveCode, stasks, svcall, sentinelRest>>

\* ------------------------------------------------- calls of the tracker
MaxCalls == 3

\* the keys the calls are made on: two users, two kinds of action
CallKeys == {"u1", "u2"} \X {"ban", "kick"}

\* the key is the user alone: the deque is written to every kind of that user
TrackerRecord_userkey(key) ==
  /\ Len(calls) < MaxCalls
  /\ LET d == record(tracker[key], clock, get_threshold(key[2]).interval)
     IN  /\ tracker' = [x \in DOMAIN tracker |-> IF x[1] = key[1] THEN d ELSE tracker[x]]
         /\ calls' = Append(calls, [op |-> "record", key |-> key, at |-> clock,
                                    ret |-> Len(d)])
  /\ UNCHANGED <<clock, configVars, liveCode, tasks, guildVars, ops, lockVars, sentinelVars,
                 scan, reverts, lastcmd, storeVars>>

\* a handler calls tracker.record, as _maybe_flag does with the kind's interval; the
\* call has no await, so it is one step
TrackerRecord(key) ==
  /\ Len(calls) < MaxCalls
  /\ LET d == record(tracker[key], clock, get_threshold(key[2]).interval)
     IN  /\ tracker' = [tracker EXCEPT ![key] = d]
         /\ calls' = Append(calls, [op |-> "record", key |-> key, at |-> clock,
                                    ret |-> Len(d)])
  /\ UNCHANGED <<clock, configVars, liveCode, tasks, guildVars, ops, lockVars, sentinelVars,
                 scan, reverts, lastcmd, storeVars>>

\* a handler calls tracker.count with the kind's interval
TrackerCount(key) ==
  /\ Len(calls) < MaxCalls
  /\ LET d == count(tracker[key], clock, get_threshold(key[2]).interval)
     IN  /\ tracker' = [tracker EXCEPT ![key] = d]
         /\ calls' = Append(calls, [op |-> "count", key |-> key, at |-> clock,
                                    ret |-> Len(d)])
  /\ UNCHANGED <<clock, configVars, liveCode, tasks, guildVars, ops, lockVars, sentinelVars,
                 scan, reverts, lastcmd, storeVars>>

\* ------------------------------------------------------------ attribution
\* "guild.audit_logs(limit=6, ...)" and "total_seconds() < 30"
AuditLimit == 6
RecencySeconds == 30
MaxLog == 7

\* the audit entries a log is made of: whose target it names, how old it is, who
\* acted, and whether that user is still in the guild
AuditEntries ==
  { [target |-> "t1", age |-> 29, user |-> "u1", present |-> TRUE],
    [target |-> "t1", age |-> 29, user |-> "u2", present |-> FALSE],
    [target |-> "t2", age |-> 29, user |-> "u1", present |-> TRUE],
    [target |-> "t1", age |-> 30, user |-> "u1", present |-> TRUE] }

\* the logs of the requested action type, newest entry first
AuditLogs == UNION {[1..n -> AuditEntries] : n \in 0..MaxLog}

IdleScan ==
  [pc |-> "idle", log |-> <<>>, target |-> None, from |-> 0, result |-> None]

\* the scan over every entry the log holds
first_match_nolimit(log, target) ==
  LET js == {j \in 1..Len(log) : log[j].target = target /\ log[j].age < RecencySeconds}
  IN  IF js = {} THEN 0 ELSE CHOOSE j \in js : \A k \in js : j <= k

\* the first of the AuditLimit newest entries that names the target and is recent,
\* or 0
first_match(log, target) ==
  LET js == {j \in 1..Min(Len(log), AuditLimit) :
               log[j].target = target /\ log[j].age < RecencySeconds}
  IN  IF js = {} THEN 0 ELSE CHOOSE j \in js : \A k \in js : j <= k

\* a listener calls _attributed_actor for the target of its event
AttributionCall ==
  /\ scan.pc = "idle"
  /\ \E log \in AuditLogs :
       scan' = [IdleScan EXCEPT !.pc = "query", !.log = log, !.target = "t1"]
  /\ UNCHANGED <<engineVars, lockVars, sentinelVars, calls, reverts, lastcmd, storeVars>>

\* the audit query raises, or yields its entries: the first match is a Member, or a
\* user who has to be looked up
AuditReply ==
  /\ scan.pc = "query"
  /\ \/ scan' = [scan EXCEPT !.pc = "done", !.result = None]
     \/ LET j == first_match(scan.log, scan.target)
        IN  IF j = 0
              THEN scan' = [scan EXCEPT !.pc = "done", !.result = None]
              ELSE \/ /\ scan.log[j].present
                      /\ scan' = [scan EXCEPT !.pc = "done", !.from = j,
                                              !.result = scan.log[j].user]
                   \/ scan' = [scan EXCEPT !.pc = "lookup", !.from = j]
  /\ UNCHANGED <<engineVars, lockVars, sentinelVars, calls, reverts, lastcmd, storeVars>>

\* "guild.get_member(...) or await guild.fetch_member(...)": the member, or an
\* exception (NotFound for a user who left) that "except Exception" turns into None
MemberLookupReply ==
  /\ scan.pc = "lookup"
  /\ \/ /\ scan.log[scan.from].present
        /\ scan' = [scan EXCEPT !.pc = "done", !.result = scan.log[scan.from].user]
     \/ scan' = [scan EXCEPT !.pc = "done", !.result = None]
  /\ UNCHANGED <<engineVars, lockVars, sentinelVars, calls, reverts, lastcmd, storeVars>>

\* ------------------------------------------------- the revert of a drift
\* the two callers of set_vanity_code that revert a drift: on_guild_update and the
\* sentinel loop
Paths == {"event", "sentinel"}

\* attempts after which the window of a burst reclaim is over at the latest
MaxAttempts == 2

\* what guild.edit does: returns, raises TypeError before anything is sent, is
\* refused (Forbidden), or fails otherwise (HTTPException)
EditOutcomes == {"ok", "type_error", "forbidden", "http_error"}

\* what the raw PATCH does: returns, is refused, or fails otherwise
RawOutcomes == {"ok", "forbidden", "http_error"}

\* phase: the direct call or the burst reclaim; sent: requests sent to the API;
\* forbidden: a request was refused; afterForbidden: one was sent after that
IdleRevert ==
  [pc |-> "idle", phase |-> "direct", attempts |-> 0, sent |-> 0, forbidden |-> FALSE,
   afterForbidden |-> FALSE, result |-> None]

\* set_vanity_code is called: "await guild.edit(vanity_code=code, ...)"
set_call(r) == [r EXCEPT !.pc = "edit", !.afterForbidden = @ \/ r.forbidden]

\* "while utcnow() < deadline": the next attempt, or return False
revert_burst_loop(r, expired) ==
  IF expired
    THEN [r EXCEPT !.pc = "done", !.result = FALSE]
    ELSE set_call([r EXCEPT !.attempts = @ + 1])

\* set_vanity_code has returned ok to the caller: "if not ok: _burst_reclaim(...)", or
\* inside the burst reclaim "if ok: return True" and the sleep
set_returned(r, ok) ==
  IF ok THEN [r EXCEPT !.pc = "done", !.result = TRUE]
  ELSE IF r.phase = "direct" THEN revert_burst_loop([r EXCEPT !.phase = "burst"], FALSE)
  ELSE [r EXCEPT !.pc = "bsleep"]

\* a path has seen the live code differ from the configured one and calls
\* set_vanity_code
RevertStart(p) ==
  /\ reverts[p].pc = "idle"
  /\ liveCode \notin {None, vanity_code}
  /\ reverts' = [reverts EXCEPT ![p] = set_call(@)]
  /\ UNCHANGED <<engineVars, lockVars, sentinelVars, calls, scan, lastcmd, storeVars>>

\* guild.edit is over: True, False on Forbidden, the raw route otherwise
RevertEditReply(p) ==
  /\ reverts[p].pc = "edit"
  /\ \E o \in EditOutcomes :
       LET r == [reverts[p] EXCEPT !.sent = IF o = "type_error" THEN @ ELSE @ + 1,
                                   !.forbidden = @ \/ o = "forbidden"]
       IN  /\ reverts' = [reverts EXCEPT ![p] =
                CASE o = "ok" -> set_returned(r, TRUE)
                  [] o = "forbidden" -> set_returned(r, FALSE)
                  [] OTHER -> [r EXCEPT !.pc = "raw", !.afterForbidden = @ \/ r.forbidden]]
           /\ liveCode' = IF o = "ok" THEN vanity_code ELSE liveCode
  /\ UNCHANGED <<clock, configVars, tracker, tasks, guildVars, ops, lockVars, sentinelVars,
                 calls, scan, lastcmd, storeVars>>

\* the raw PATCH is over: True, or False on any exception
RevertRawReply(p) ==
  /\ reverts[p].pc = "raw"
  /\ \E o \in RawOutcomes :
       LET r == [reverts[p] EXCEPT !.sent = @ + 1, !.forbidden = @ \/ o = "forbidden"]
       IN  /\ reverts' = [reverts EXCEPT ![p] = set_returned(r, o = "ok")]
           /\ liveCode' = IF o = "ok" THEN vanity_code ELSE liveCode
  /\ UNCHANGED <<clock, configVars, tracker, tasks, guildVars, ops, lockVars, sentinelVars,
                 calls, scan, lastcmd, storeVars>>

\* the sleep of the burst reclaim is over: the window has passed or not
RevertSleepReply(p) ==
  /\ reverts[p].pc = "bsleep"
  /\ \E expired \in BOOLEAN :
       /\ ~expired => reverts[p].attempts < MaxAttempts
       /\ reverts' = [reverts EXCEPT ![p] = revert_burst_loop(@, expired)]
  /\ UNCHANGED <<engineVars, lockVars, sentinelVars, calls, scan, lastcmd, storeVars>>

\* ------------------------------------------------- who invokes a command
CommandNames ==
  {"enable", "disable", "wl_add", "wl_remove", "wladmin_add", "wladmin_remove",
   "lockdown", "unlockdown"}

NoCommand == [name |-> "none", invoker |-> None, refused |-> FALSE]

\* the command name was invoked by u and its body ran
Invoked(name, u) ==
  /\ lastcmd' = [name |-> name, invoker |-> u, refused |-> FALSE]
  /\ UNCHANGED <<sentinelVars, calls, scan, reverts, storeVars>>

\* cog_check replies "Only the server owner or wladmins can use this bot." and
\* returns False: the command's body does not run
CommandRefused(name, u) ==
  /\ ~cog_check(u)
  /\ lastcmd' = [name |-> name, invoker |-> u, refused |-> TRUE]
  /\ UNCHANGED <<engineVars, lockVars, sentinelVars, calls, scan, reverts, storeVars>>

\* wladmin add/remove reply "Only the server owner can modify wladmins." and return
WladminRefused(name, u) ==
  /\ cog_check(u)
  /\ ~owner_only(u)
  /\ lastcmd' = [name |-> name, invoker |-> u, refused |-> TRUE]
  /\ UNCHANGED <<engineVars, lockVars, sentinelVars, calls, scan, reverts, storeVars>>

\* ------------------------------------------------ the configuration store
Fields ==
  {"enabled", "log_channel_id", "vanity_protect", "vanity_code", "punishment", "thresholds",
   "whitelist", "admins", "sanitize_on_join"}

DEFAULT_THRESHOLDS ==
  [k \in Kinds |->
     [count |-> IF k \in {"channel_create", "webhook_create"} THEN 5 ELSE 3, interval |-> 10]]

\* the second argument of each setdefault of g
Defaults(f) ==
  CASE f = "enabled" -> TRUE
    [] f = "log_channel_id" -> None
    [] f = "vanity_protect" -> FALSE
    [] f = "vanity_code" -> None
    [] f = "punishment" -> "jail"
    [] f = "thresholds" -> DEFAULT_THRESHOLDS
    [] f = "whitelist" -> {}
    [] f = "admins" -> {}
    [] OTHER -> FALSE

\* values a field can hold in the file
StoredValues(f) ==
  CASE f = "enabled" -> {FALSE}
    [] f = "log_channel_id" -> {"chan"}
    [] f = "vanity_protect" -> {TRUE}
    [] f = "vanity_code" -> {"foo"}
    [] f = "punishment" -> {"jail", "ban"}
    [] f = "thresholds" -> {ThresholdTable(1, 1)}
    [] f = "whitelist" -> {{"u1"}}
    [] f = "admins" -> {{"u2"}}
    [] OTHER -> {TRUE}

\* the records the file can hold for the guild: any of the fields, or none
FullRecords ==
  [enabled : StoredValues("enabled"), log_channel_id : StoredValues("log_channel_id"),
   vanity_protect : StoredValues("vanity_protect"), vanity_code : StoredValues("vanity_code"),
   punishment : StoredValues("punishment"), thresholds : StoredValues("thresholds"),
   whitelist : StoredValues("whitelist"), admins : StoredValues("admins"),
   sanitize_on_join : StoredValues("sanitize_on_join")]

StoredRecords == {[f \in S |-> r[f]] : r \in FullRecords, S \in SUBSET Fields}

NoRecord == [f \in {} |-> None]

\* g with every setdefault replaced by an assignment
g_assign(r) == [f \in Fields |-> Defaults(f)]

\* g: setdefault on each of the nine fields
g(r) == [f \in Fields |-> IF f \in DOMAIN r THEN r[f] ELSE Defaults(f)]

\* store: the guild's record in self.data, once _load has run; before: the record
\* the last g() call found; ret: what it returned
NoConfig ==
  [loaded |-> FALSE, called |-> FALSE, store |-> NoRecord, before |-> NoRecord,
   ret |-> NoRecord]

\* JSONKV._load: the guild's record as the file has it
ConfigLoad ==
  /\ ~cfgcall.loaded
  /\ \E r \in StoredRecords : cfgcall' = [cfgcall EXCEPT !.loaded = TRUE, !.store = r]
  /\ UNCHANGED <<engineVars, lockVars, sentinelVars, calls, scan, reverts, lastcmd>>

\* a caller's self.config.g(guild_id), save_guild_config included
ConfigGet ==
  /\ cfgcall.loaded
  /\ cfgcall' = [cfgcall EXCEPT !.called = TRUE, !.store = g(cfgcall.store),
                                !.before = cfgcall.store, !.ret = g(cfgcall.store)]
  /\ UNCHANGED <<engineVars, lockVars, sentinelVars, calls, scan, reverts, lastcmd>>

\* a command's cfg = self.config.g(...); cfg[f] = v; save_guild_config(...)
ConfigSet(f, v) ==
  /\ cfgcall.loaded
  /\ cfgcall' = [cfgcall EXCEPT !.called = TRUE, !.store = [g(cfgcall.store) EXCEPT ![f] = v],
                                !.before = cfgcall.store, !.ret = g(cfgcall.store)]
  /\ UNCHANGED <<engineVars, lockVars, sentinelVars, calls, scan, reverts, lastcmd>>

\* ------------------------------------------------------------------- Init
\* no call made yet
InitCallState ==
  /\ calls = <<>>
  /\ scan = IdleScan
  /\ reverts = [p \in Paths |-> IdleRevert]
  /\ lastcmd = NoCommand
  /\ cfgcall = NoConfig

\* no burst reclaim and no sentinel, the cog loaded
InitSentinelState ==
  /\ burst = IdleBurst
  /\ stasks = <<>>
  /\ registry = 0
  /\ torn = None
  /\ svcall = None

\* the state the engine specifications start from: a config store holding the
\* defaults of AntiNukeConfigStore.g but for the stored thresholds, the punishment
\* mode and a vanity code set with setvanity; an empty tracker, no handler running
InitCommon ==
  /\ clock = 0
  /\ enabled = TRUE
  /\ vanity_protect = TRUE
  /\ vanity_code = "foo"
  /\ tracker = [key \in (Users \cup {None}) \X Kinds |-> <<>>]
  /\ tasks = [i \in 1..MaxEvents |-> IdleTask]
  /\ roles = [u \in Users |-> IF u = "u1" THEN {1} ELSE IF u = "u2" THEN {MaxPos} ELSE {}]
  /\ members = Users
  /\ jailedRole = FALSE
  /\ hasJailed = {}
  /\ jailDeny = {}
  /\ ops = 0
  /\ InitLockState(<<"inherit", "inherit", "inherit">>)
  /\ InitSentinelState
  /\ InitCallState

\* ------------------------------------------------ the detection engine
\* The bot holds no role above the default one, so every punish run ends at its
\* hierarchy guard: this specification is about which events reach punish.  The
\* whitelist and the wladmins start empty, or with one member each.
InitEngine ==
  /\ InitCommon
  /\ \/ whitelist = {} /\ admins = {}
     \/ whitelist = {"u2"} /\ admins = {"u1"}
  /\ punishment = "jail"
  /\ \E c \in 1..MaxCount, t \in 1..MaxInterval : thresholds = ThresholdTable(c, t)
  /\ liveCode = "foo"
  /\ botTop = 0

NextEngine ==
  \/ /\ \E k \in Kinds : EventArrive(k)
     /\ UNCHANGED <<lockVars, sentinelVars, callVars>>
  \/ /\ \E i \in 1..MaxEvents : AttributeReply(i)
     /\ UNCHANGED <<lockVars, sentinelVars, callVars>>
  \/ /\ \E i \in 1..MaxEvents : FlagLogReply(i)
     /\ UNCHANGED <<lockVars, sentinelVars, callVars>>
  \/ /\ \E u \in Users : antinuke_enable(u)
     /\ UNCHANGED <<lockVars, sentinelVars, callVars>>
  \/ /\ \E u \in Users : antinuke_disable(u)
     /\ UNCHANGED <<lockVars, sentinelVars, callVars>>
  \/ /\ \E u, m \in Users : wl_add(u, m)
     /\ UNCHANGED <<lockVars, sentinelVars, callVars>>
  \/ /\ \E u, m \in Users : wl_remove(u, m)
     /\ UNCHANGED <<lockVars, sentinelVars, callVars>>
  \/ /\ \E u, m \in Users : wladmin_add(u, m)
     /\ UNCHANGED <<lockVars, sentinelVars, callVars>>
  \/ /\ \E u, m \in Users : wladmin_remove(u, m)
     /\ UNCHANGED <<lockVars, sentinelVars, callVars>>
  \/ /\ Tick
     /\ UNCHANGED <<lockVars, sentinelVars, callVars>>

SpecEngine == InitEngine /\ [][NextEngine]_vars

\* ------------------------------------------------------ the punish runs
\* Every event meets its threshold (count 1), the bot's top role is the highest one
\* and the live vanity code has drifted: this specification is about what punish does,
\* entered from a listener and from on_guild_update.
PunishKinds == {"channel_delete"}

InitPunish ==
  /\ InitCommon
  /\ whitelist = {}
  /\ admins = {}
  /\ punishment \in Modes
  /\ thresholds = ThresholdTable(1, 1)
  /\ liveCode = "bar"
  /\ botTop = MaxPos

NextPunish ==
  \/ /\ \E k \in PunishKinds : EventArrive(k)
     /\ UNCHANGED <<lockVars, sentinelVars, callVars>>
  \/ /\ \E i \in 1..MaxEvents : AttributeReply(i)
     /\ UNCHANGED <<lockVars, sentinelVars, callVars>>
  \/ /\ \E i \in 1..MaxEvents : FlagLogReply(i)
     /\ UNCHANGED <<lockVars, sentinelVars, callVars>>
  \/ /\ \E i \in 1..MaxEvents : PunishBanReply(i)
     /\ UNCHANGED <<lockVars, sentinelVars, callVars>>
  \/ /\ \E i \in 1..MaxEvents : PunishStripReply(i)
     /\ UNCHANGED <<lockVars, sentinelVars, callVars>>
  \/ /\ \E i \in 1..MaxEvents : PunishCreateRoleReply(i)
     /\ UNCHANGED <<lockVars, sentinelVars, callVars>>
  \/ /\ \E i \in 1..MaxEvents : PunishAddRoleReply(i)
     /\ UNCHANGED <<lockVars, sentinelVars, callVars>>
  \/ /\ \E i \in 1..MaxEvents : PunishChannelReply(i)
     /\ UNCHANGED <<lockVars, sentinelVars, callVars>>
  \/ /\ GuildUpdateArrive
     /\ UNCHANGED <<lockVars, sentinelVars, callVars>>
  \/ /\ \E i \in 1..MaxEvents : GuildUpdateAuditReply(i)
     /\ UNCHANGED <<lockVars, sentinelVars, callVars>>
  \/ /\ \E i \in 1..MaxEvents : GuildUpdateSetReply(i)
     /\ UNCHANGED <<lockVars, sentinelVars, callVars>>
  \/ /\ \E i \in 1..MaxEvents : GuildUpdateBurstReply(i)
     /\ UNCHANGED <<lockVars, sentinelVars, callVars>>
  \/ /\ \E i \in 1..MaxEvents : GuildUpdateLogReply(i)
     /\ UNCHANGED <<lockVars, sentinelVars, callVars>>
  \/ /\ \E u, m \in Users : wl_add(u, m)
     /\ UNCHANGED <<lockVars, sentinelVars, callVars>>
  \/ /\ \E u, m \in Users : wladmin_add(u, m)
     /\ UNCHANGED <<lockVars, sentinelVars, callVars>>
  \/ /\ RoleUpdate
     /\ UNCHANGED <<lockVars, sentinelVars, callVars>>

SpecPunish == InitPunish /\ [][NextPunish]_vars

\* ------------------------------------------------- the lockdown controller
BypassChoices == {{}, {"c_voice"}}

InitLock ==
  /\ clock = 0
  /\ enabled = TRUE
  /\ whitelist = {}
  /\ admins = {}
  /\ punishment = "jail"
  /\ thresholds = ThresholdTable(1, 1)
  /\ vanity_protect = FALSE
  /\ vanity_code = None
  /\ liveCode = None
  /\ tracker = [key \in (Users \cup {None}) \X Kinds |-> <<>>]
  /\ tasks = [i \in 1..MaxEvents |-> IdleTask]
  /\ roles = [u \in Users |-> {}]
  /\ botTop = MaxPos
  /\ members = Users
  /\ jailedRole = FALSE
  /\ hasJailed = {}
  /\ jailDeny = {}
  /\ ops = 0
  /\ \E a \in Tri : InitLockState(<<a, Rot(a), Rot(Rot(a))>>)
  /\ InitSentinelState
  /\ InitCallState

NextLock ==
  \/ /\ \E u \in Users, b \in BypassChoices : LockArrive(u, b)
     /\ UNCHANGED <<engineVars, sentinelVars, callVars>>
  \/ /\ \E c \in 1..MaxCmds : LockReplySent(c)
     /\ UNCHANGED <<engineVars, sentinelVars, callVars>>
  \/ /\ \E c \in 1..MaxCmds : LockEditReply(c)
     /\ UNCHANGED <<engineVars, sentinelVars, callVars>>
  \/ /\ \E c \in 1..MaxCmds : LockWebhooksReply(c)
     /\ UNCHANGED <<engineVars, sentinelVars, callVars>>
  \/ /\ \E c \in 1..MaxCmds : LockWebhookDeleteReply(c)
     /\ UNCHANGED <<engineVars, sentinelVars, callVars>>
  \/ /\ \E u \in Users : UnlockArrive(u)
     /\ UNCHANGED <<engineVars, sentinelVars, callVars>>
  \/ /\ \E c \in 1..MaxCmds : UnlockEditReply(c)
     /\ UNCHANGED <<engineVars, sentinelVars, callVars>>
  \/ /\ \E ch \in Channels : ChannelDelete(ch)
     /\ UNCHANGED <<clock, configVars, liveCode, tracker, tasks, guildVars, sentinelVars, callVars>>

SpecLock == InitLock /\ [][NextLock]_vars

\* ---------------------------------------------------- one burst reclaim
InitBurst ==
  /\ InitCommon
  /\ whitelist = {}
  /\ admins = {}
  /\ punishment = "jail"
  /\ thresholds = ThresholdTable(1, 1)
  /\ liveCode = "bar"
  /\ botTop = MaxPos

NextBurst ==
  \/ BurstStart
  \/ BurstAttemptReply
  \/ BurstSleepReply

SpecBurst == InitBurst /\ [][NextBurst]_vars

\* ------------------------------------------------------ the vanity sentinel
\* One guild's sentinel loop, pass by pass, with the configured code fixed.  The
\* live code differs from the configured one or not; no sentinel runs yet.
InitSentinel ==
  /\ InitCommon
  /\ whitelist = {}
  /\ admins = {}
  /\ punishment = "jail"
  /\ thresholds = ThresholdTable(1, 1)
  /\ liveCode \in Codes
  /\ botTop = MaxPos

NextSentinel ==
  \/ /\ Tick
     /\ UNCHANGED <<lockVars, sentinelVars, callVars>>
  \/ /\ VanityChange
     /\ UNCHANGED <<lockVars, sentinelVars, callVars>>
  \/ Ensure
  \/ ProtectionOff
  \/ \E i \in 1..MaxTasks : SentinelWake(i)
  \/ \E i \in 1..MaxTasks : SentinelFetchReply(i)
  \/ \E i \in 1..MaxTasks : SentinelSetReply(i)
  \/ \E i \in 1..MaxTasks : SentinelBurstReply(i)
  \/ \E i \in 1..MaxTasks : SentinelLogReply(i)
  \/ \E i \in 1..MaxTasks : SentinelCancelled(i)

SpecSentinel == InitSentinel /\ [][NextSentinel]_vars

\* The event loop runs a task whose sleep is over or that was cancelled; nothing
\* makes an external call return.
SpecSentinelFair ==
  /\ SpecSentinel
  /\ WF_vars(\E i \in 1..MaxTasks : SentinelWake(i))
  /\ WF_vars(\E i \in 1..MaxTasks : SentinelCancelled(i))

\* ------------------------------------------- the life of the sentinel tasks
\* Which tasks exist: startup and joins, setvanity, a configuration that stops
\* asking for protection, unload and removal.  Time stands still.
NextLifecycle ==
  \/ Ensure
  \/ SetVanity
  \/ SetVanityReply
  \/ ProtectionOff
  \/ Teardown
  \/ \E i \in 1..MaxTasks : SentinelWake(i)
  \/ \E i \in 1..MaxTasks : SentinelFetchReply(i)
  \/ \E i \in 1..MaxTasks : SentinelSetReply(i)
  \/ \E i \in 1..MaxTasks : SentinelBurstReply(i)
  \/ \E i \in 1..MaxTasks : SentinelLogReply(i)
  \/ \E i \in 1..MaxTasks : SentinelCancelled(i)

SpecLifecycle == InitSentinel /\ [][NextLifecycle]_vars

\* ------------------------------------------------------------ the tracker
\* Handlers call record and count on four keys while time passes; the interval of
\* every kind is the same, chosen at the start.
InitTracker ==
  /\ InitCommon
  /\ whitelist = {}
  /\ admins = {}
  /\ punishment = "jail"
  /\ \E c \in 1..MaxCount, t \in 1..MaxInterval : thresholds = ThresholdTable(c, t)
  /\ liveCode = "foo"
  /\ botTop = MaxPos

NextTracker ==
  \/ \E key \in CallKeys : TrackerRecord(key)
  \/ \E key \in CallKeys : TrackerCount(key)
  \/ /\ Tick
     /\ UNCHANGED <<lockVars, sentinelVars, callVars>>

SpecTracker == InitTracker /\ [][NextTracker]_vars

\* --------------------------------------------------------- one attribution
InitAttribution ==
  /\ InitCommon
  /\ whitelist = {}
  /\ admins = {}
  /\ punishment = "jail"
  /\ thresholds = ThresholdTable(1, 1)
  /\ liveCode = "foo"
  /\ botTop = MaxPos

NextAttribution ==
  \/ AttributionCall
  \/ AuditReply
  \/ MemberLookupReply

SpecAttribution == InitAttribution /\ [][NextAttribution]_vars

\* ------------------------------------------------ both paths on one drift
\* The live code has drifted; the handler of the guild-update event and the
\* sentinel revert it, each on its own.
InitRevert ==
  /\ InitCommon
  /\ whitelist = {}
  /\ admins = {}
  /\ punishment = "jail"
  /\ thresholds = ThresholdTable(1, 1)
  /\ liveCode = "bar"
  /\ botTop = MaxPos

NextRevert ==
  \/ \E p \in Paths : RevertStart(p)
  \/ \E p \in Paths : RevertEditReply(p)
  \/ \E p \in Paths : RevertRawReply(p)
  \/ \E p \in Paths : RevertSleepReply(p)

SpecRevert == InitRevert /\ [][NextRevert]_vars

\* ------------------------------------------------------ the commands
\* Commands of every user, accepted or refused, each up to its first await (what
\* lockdown and unlockdown do after it is SpecLock's); the whitelist and the
\* wladmins start empty, or with one member each.
InitCommands ==
  /\ InitCommon
  /\ \/ whitelist = {} /\ admins = {}
     \/ whitelist = {"u2"} /\ admins = {"u1"}
  /\ punishment = "jail"
  /\ thresholds = ThresholdTable(1, 1)
  /\ liveCode = "foo"
  /\ botTop = 0

NextCommands ==
  \/ \E u \in Users : antinuke_enable(u) /\ Invoked("enable", u) /\ UNCHANGED lockVars
  \/ \E u \in Users : antinuke_disable(u) /\ Invoked("disable", u) /\ UNCHANGED lockVars
  \/ \E u, m \in Users : wl_add(u, m) /\ Invoked("wl_add", u) /\ UNCHANGED lockVars
  \/ \E u, m \in Users : wl_remove(u, m) /\ Invoked("wl_remove", u) /\ UNCHANGED lockVars
  \/ \E u, m \in Users : wladmin_add(u, m) /\ Invoked("wladmin_add", u) /\ UNCHANGED lockVars
  \/ \E u, m \in Users :
       wladmin_remove(u, m) /\ Invoked("wladmin_remove", u) /\ UNCHANGED lockVars
  \/ \E u \in Users, b \in BypassChoices :
       LockArrive(u, b) /\ Invoked("lockdown", u) /\ UNCHANGED engineVars
  \/ \E u \in Users : UnlockArrive(u) /\ Invoked("unlockdown", u) /\ UNCHANGED engineVars
  \/ \E u \in Users, n \in CommandNames : CommandRefused(n, u)
  \/ \E u \in Users, n \in {"wladmin_add", "wladmin_remove"} : WladminRefused(n, u)

SpecCommands == InitCommands /\ [][NextCommands]_vars

\* ------------------------------------------------ the store and its callers
InitConfig ==
  /\ InitCommon
  /\ whitelist = {}
  /\ admins = {}
  /\ punishment = "jail"
  /\ thresholds = ThresholdTable(1, 1)
  /\ liveCode = "foo"
  /\ botTop = 0

NextConfig ==
  \/ ConfigLoad
  \/ ConfigGet
  \/ \E f \in {"enabled", "punishment"} : \E v \in StoredValues(f) : ConfigSet(f, v)

SpecConfig == InitConfig /\ [][NextConfig]_vars

\* ------------------------------------------------ the guard and setvanity
\* Protection stays on: the sentinel is started and runs its passes while setvanity
\* commands change the configured code.  Time stands still.
NextReclaim ==
  \/ Ensure
  \/ SetVanity
  \/ SetVanityReply
  \/ \E i \in 1..MaxTasks : SentinelWake(i)
  \/ \E i \in 1..MaxTasks : SentinelFetchReply(i)
  \/ \E i \in 1..MaxTasks : SentinelSetReply(i)
  \/ \E i \in 1..MaxTasks : SentinelBurstReply(i)
  \/ \E i \in 1..MaxTasks : SentinelLogReply(i)

SpecReclaim == InitSentinel /\ [][NextReclaim]_vars

\* a pass of the loop whose read of the configuration does not raise
WakeReads == \E i \in 1..MaxTasks : SentinelWake(i) /\ stasks'[i].pc = "fetch"

\* a direct set_vanity_code that returns True
SetSucceeds == \E i \in 1..MaxTasks : SentinelSetReply(i) /\ stasks'[i].direct = "ok"

\* on_ready starts the sentinel, the event loop runs the task whose sleep is over,
\* every external call returns, the configuration can be read, and a set-code call
\* that is made again and again succeeds in the end.
SpecReclaimFair ==
  /\ SpecReclaim
  /\ WF_vars(Ensure)
  /\ WF_vars(SetVanityReply)
  /\ WF_vars(WakeReads)
  /\ WF_vars(\E i \in 1..MaxTasks : SentinelFetchReply(i))
  /\ WF_vars(\E i \in 1..MaxTasks : SentinelSetReply(i))
  /\ WF_vars(\E i \in 1..MaxTasks : SentinelBurstReply(i))
  /\ WF_vars(\E i \in 1..MaxTasks : SentinelLogReply(i))
  /\ SF_vars(SetSucceeds)

\* ------------------------------------------- the guard in a disabled guild
\* The live code has drifted and the anti-nuke is switched off at some point
\* (vanity protection stays on): guild updates arrive and the sentinel runs.
InitGuard ==
  /\ InitCommon
  /\ whitelist = {}
  /\ admins = {}
  /\ punishment = "jail"
  /\ thresholds = ThresholdTable(1, 1)
  /\ liveCode = "bar"
  /\ botTop = MaxPos

NextGuard ==
  \/ /\ \E u \in Users : antinuke_disable(u)
     /\ UNCHANGED <<lockVars, sentinelVars, callVars>>
  \/ /\ GuildUpdateArrive
     /\ UNCHANGED <<lockVars, sentinelVars, callVars>>
  \/ /\ \E i \in 1..MaxEvents : GuildUpdateAuditReply(i)
     /\ UNCHANGED <<lockVars, sentinelVars, callVars>>
  \/ /\ \E i \in 1..MaxEvents : GuildUpdateSetReply(i)
     /\ UNCHANGED <<lockVars, sentinelVars, callVars>>
  \/ /\ \E i \in 1..MaxEvents : GuildUpdateBurstReply(i)
     /\ UNCHANGED <<lockVars, sentinelVars, callVars>>
  \/ /\ \E i \in 1..MaxEvents : GuildUpdateLogReply(i)
     /\ UNCHANGED <<lockVars, sentinelVars, callVars>>
  \/ /\ \E i \in 1..MaxEvents : PunishStripReply(i)
     /\ UNCHANGED <<lockVars, sentinelVars, callVars>>
  \/ /\ \E i \in 1..MaxEvents : PunishCreateRoleReply(i)
     /\ UNCHANGED <<lockVars, sentinelVars, callVars>>
  \/ /\ \E i \in 1..MaxEvents : PunishAddRoleReply(i)
     /\ UNCHANGED <<lockVars, sentinelVars, callVars>>
  \/ /\ \E i \in 1..MaxEvents : PunishChannelReply(i)
     /\ UNCHANGED <<lockVars, sentinelVars, callVars>>
  \/ Ensure
  \/ \E i \in 1..MaxTasks : SentinelWake(i)
  \/ \E i \in 1..MaxTasks : SentinelFetchReply(i)
  \/ \E i \in 1..MaxTasks : SentinelSetReply(i)
  \/ \E i \in 1..MaxTasks : SentinelBurstReply(i)
  \/ \E i \in 1..MaxTasks : SentinelLogReply(i)

SpecGuard == InitGuard /\ [][NextGuard]_vars

\* ================================================================ claims
\* the handlers of the six listeners that have got past the audit-log query
Events == {i \in 1..MaxEvents : tasks[i].type = "event"}

\* a finished handler is never touched again
DoneStays(i) == tasks[i].pc = "done" => tasks'[i] = tasks[i]

\* the number of records of task i's actor and kind, task i's own included, made no
\* later than task i's and no more than the interval before it
WindowCount(i) ==
  Cardinality({j \in 1..MaxEvents :
     /\ tasks[j].tracked
     /\ tasks[j].actor = tasks[i].actor
     /\ tasks[j].kind = tasks[i].kind
     /\ tasks[j].rseq <= tasks[i].rseq
     /\ tasks[j].rtime >= tasks[i].rtime - get_threshold(tasks[i].kind).interval})

\* C1: the count an event is given is the number of the actor's events of that kind
\* inside the interval, and punish is invoked for the event exactly when that count
\* has reached the threshold count: never below it, always from the Nth on
C1_ThresholdDecides ==
  \A i \in Events :
    LET t == tasks[i]
    IN /\ t.tracked => t.n = WindowCount(i)
       /\ t.pc \in {"attribute", "flag_log"} => ~t.invoked
       /\ t.pc \notin {"attribute", "flag_log"} =>
            (t.invoked <=> (t.tracked /\ t.n >= get_threshold(t.kind).count))

\* two events of one member who is neither owner nor whitelisted, threshold count 2:
\* the first counted 1 and ended without punish, the second counted 2 and reached it
C1_Witness ==
  \E i, j \in Events :
    /\ tasks[i].actor = tasks[j].actor /\ tasks[i].kind = tasks[j].kind
    /\ tasks[i].actor \notin {None, Owner} /\ ~is_whitelisted(tasks[i].actor)
    /\ get_threshold(tasks[i].kind).count = 2
    /\ tasks[i].tracked /\ tasks[i].n = 1 /\ tasks[i].pc = "done" /\ ~tasks[i].invoked
    /\ tasks[j].tracked /\ tasks[j].n = 2 /\ tasks[j].invoked

\* C2: a handler whose actor was whitelisted, a wladmin or the owner when punish ran
\* its guards (or when on_guild_update decided not to call it) has issued no ban, no
\* role removal, no role creation or assignment and no channel edit
C2_ExemptNeverMutated ==
  \A i \in 1..MaxEvents : tasks[i].exempt => tasks[i].attempts = {}

\* punish was entered from a listener for an exempt actor and returned, and
\* on_guild_update met an exempt changer
C2_Witness ==
  /\ \E i \in Events : tasks[i].invoked /\ tasks[i].exempt /\ tasks[i].pc = "done"
  /\ \E i \in 1..MaxEvents :
       tasks[i].type = "guild_update" /\ tasks[i].exempt /\ tasks[i].pc = "done"

\* C3: the step that attributes an event to a whitelisted member, a wladmin or the
\* owner leaves the tracker as it was
C3_ExemptNotTracked ==
  [][\A i \in 1..MaxEvents :
       (/\ tasks[i].pc = "attribute" /\ tasks'[i].pc # "attribute"
        /\ tasks'[i].actor # None
        /\ (is_whitelisted(tasks'[i].actor) \/ tasks'[i].actor = Owner))
       => tracker' = tracker]_vars

\* C4: no mutation of a punish run was issued while the bot's top role was not
\* strictly above the target's
C4_HierarchyAtEveryMutation ==
  \A i \in 1..MaxEvents :
    tasks[i].unguarded \cap {"ban", "remove_roles", "add_roles", "set_permissions"} = {}

\* C5: the step that finds no actor for an event leaves the tracker as it was and
\* ends the handler, which has neither recorded nor invoked punish, for good
C5_UnknownNeverCounts ==
  [][\A i \in 1..MaxEvents :
       /\ (tasks[i].pc = "attribute" /\ tasks'[i].pc # "attribute" /\ tasks'[i].actor = None)
            => /\ tracker' = tracker
               /\ tasks'[i].pc = "done"
               /\ ~tasks'[i].tracked /\ ~tasks'[i].invoked
       /\ DoneStays(i)]_vars

\* two events, with a threshold count of 1, both ended unattributed
C5_Witness ==
  \E i, j \in Events :
    /\ i # j /\ tasks[i].kind = tasks[j].kind
    /\ get_threshold(tasks[i].kind).count = 1
    /\ \A k \in {i, j} :
         tasks[k].gate /\ tasks[k].pc = "done" /\ tasks[k].actor = None /\ ~tasks[k].invoked

\* C6: every event of an enabled guild that ended unattributed has asked for an
\* "actor unknown" log entry
C6_UnknownLogged ==
  \A i \in Events :
    (tasks[i].gate /\ tasks[i].pc = "done" /\ tasks[i].actor = None)
      => "observed: actor unknown" \in tasks[i].logs

\* C7: an event arriving while enabled is false changes no tracker window and ends
\* its handler at once, with no log entry, no record and no punish call, for good
C7_DisabledDiscards ==
  [][\A i \in 1..MaxEvents :
       /\ (tasks[i].pc = "idle" /\ tasks'[i].type = "event" /\ ~enabled)
            => /\ tracker' = tracker
               /\ tasks'[i].pc = "done"
               /\ tasks'[i].logs = {} /\ ~tasks'[i].tracked /\ ~tasks'[i].invoked
       /\ DoneStays(i)]_vars

\* the guild was disabled and an event arrived after that
C7_Witness ==
  \E i \in Events : ~tasks[i].gate /\ tasks[i].pc = "done" /\ tasks[i].logs = {}

\* the commands that were accepted: they got past their check of the active flag
Accepted(name) ==
  {c \in 1..MaxCmds : cmds[c].cmd = name /\ CmdStarted(c) /\ ~cmds[c].refused}

C9_LockRefusedWhenActive ==
  [][\A c \in 1..MaxCmds :
       /\ (cmds[c].pc = "idle" /\ cmds'[c].cmd = "lock" /\ lockActive)
            => /\ cmds'[c].refused /\ cmds'[c].pc = "done"
               /\ cmds'[c].edits = 0 /\ cmds'[c].deleted = 0
               /\ UNCHANGED <<ow, webhooks, lockChannels, lockActive>>
       /\ (cmds[c].pc = "done" => cmds'[c] = cmds[c])]_vars

\* a lock ran to its end and a second lock was then refused
C9_Witness ==
  \E l, c \in 1..MaxCmds :
    /\ l # c
    /\ cmds[l].cmd = "lock" /\ ~cmds[l].refused /\ cmds[l].pc = "done" /\ cmds[l].edits > 0
    /\ cmds[c].cmd = "lock" /\ cmds[c].activeAtStart /\ cmds[c].refused
    /\ lockActive

\* C10: at most one lock command has issued channel edits, and while the lockdown is
\* active the stored snapshot holds, for each of its channels, the values the channel
\* had before the lockdown began
C10_NoDoubleLock ==
  /\ Cardinality({c \in 1..MaxCmds : cmds[c].cmd = "lock" /\ cmds[c].edits > 0}) <= 1
  /\ (lockActive /\ Accepted("unlock") = {})
       => \A ch \in DOMAIN lockChannels : lockChannels[ch] = preLock[ch]

\* C11: a burst reclaim returns success exactly when one of its attempts succeeds,
\* and that attempt is its last; it returns failure only when every attempt failed
\* and the deadline has passed; no attempt starts at or after the deadline; and
\* once it has returned, it attempts nothing more.
C11_BurstResult ==
  /\ [](/\ burst.afterSuccess = 0
        /\ burst.late = 0
        /\ burst.pc = "done" =>
             /\ burst.result = "True" <=> burst.succeeded > 0
             /\ burst.result = "False" => burst.now >= burst.deadline
             /\ burst.result \in {"True", "False", "raise"})
  /\ [][burst.pc = "done" => burst' = burst]_vars

\* two attempts fail, the third succeeds before the deadline
C11_Witness ==
  /\ burst.pc = "done"
  /\ burst.result = "True"
  /\ burst.started = 3
  /\ burst.now < burst.deadline

\* the delays of a burst reclaim, in eighths of a millisecond: 50, 75, 112.5, 168.75 ms,
\* then 250 ms
DelaySchedule == <<400, 600, 900, 1350>>

\* C12: the k-th sleep of a burst reclaim lasts 50 ms for k = 1 and the lesser of 1.5
\* times the previous one and 250 ms after that; the delays never decrease and never
\* exceed 250 ms.
C12_BurstDelays ==
  \A k \in 1..Len(burst.slept) :
    /\ burst.slept[k] = IF k <= Len(DelaySchedule) THEN DelaySchedule[k] ELSE 2000
    /\ burst.slept[k] <= 2000
    /\ k > 1 => /\ burst.slept[k] >= burst.slept[k - 1]
                /\ burst.slept[k] = Min((3 * burst.slept[k - 1]) \div 2, 2000)

\* six sleeps: the cap is reached and kept
C12_Witness ==
  /\ Len(burst.slept) = 6
  /\ burst.slept[5] = 2000
  /\ burst.slept[6] = 2000

\* the sentinel tasks made so far
Sentinels == 1..Len(stasks)

\* C13: in a pass of the sentinel loop, a direct set-code call for the wanted code is
\* made exactly when the fetched code is present and differs from it; the burst
\* reclaim is invoked exactly when that direct call returned failure, and then for
\* the wanted code and 8 seconds.
C13_DirectThenBurst ==
  \A i \in Sentinels :
    LET t == stasks[i]
        drift == t.current \notin {"unfetched", None, t.want}
    IN  /\ drift <=> t.setWant # None
        /\ t.setWant # None => t.setWant = t.want
        /\ t.direct # "none" => t.setWant # None
        /\ t.burstWant # None <=> t.direct = "fail"
        /\ t.burstWant # None => t.burstWant = t.want /\ t.burstSecs = 8
        /\ t.pc = "set" => drift /\ t.direct = "none"
        /\ t.pc = "burst" => t.burstWant # None

\* the direct call failed and the burst reclaim runs
C13_Witness ==
  \E i \in Sentinels :
    /\ stasks[i].pc = "burst"
    /\ stasks[i].current = "bar"
    /\ stasks[i].direct = "fail"
    /\ stasks[i].burstWant = "foo"

Live(i) == stasks[i].pc # "done" /\ ~stasks[i].cancelReq

\* _ensure_vanity_sentinel runs, from a listener or from setvanity
EnsureCalled == Ensure \/ SetVanity

\* C15: while the cog stays loaded at most one sentinel task is live; a call of
\* ensure-started with a registered unfinished task starts none, and one with a
\* registered finished task starts one and registers it.
C15_OneSentinel ==
  /\ [](torn # "unload" => Cardinality({i \in Sentinels : Live(i)}) <= 1)
  /\ [][/\ Len(stasks') > Len(stasks) =>
             /\ EnsureCalled
             /\ registry = 0 \/ stasks[registry].pc = "done"
        /\ (EnsureCalled /\ registry # 0 /\ vanity_protect' /\ vanity_code' # None) =>
             IF stasks[registry].pc # "done"
               THEN stasks' = stasks /\ registry' = registry
               ELSE /\ stasks' = Append(stasks, NewSentinel)
                    /\ registry' = Len(stasks')]_vars

\* the first task has finished, ensure-started made a second one, and it runs
C15_Witness ==
  /\ torn = None
  /\ Len(stasks) = 2
  /\ registry = 2
  /\ stasks[1].pc = "done"
  /\ stasks[2].pc = "fetch"

\* C16: after the cog is unloaded or the bot removed from the guild, no sentinel
\* issues another fetch or set-code call.
C16_NoCallAfterTeardown ==
  \A i \in Sentinels : ~stasks[i].afterTorn

\* C17: every pass of the loop reads the configuration again: a task that wakes
\* while it asks for no protection ends there (or naps, when the read itself
\* failed) and issues nothing, a task that goes on works for the code configured
\* now, and a task that has ended does nothing more.
C17_ObservesDisable ==
  [][\A i \in Sentinels :
       /\ SentinelWake(i) /\ (~vanity_protect \/ vanity_code = None) =>
            /\ stasks'[i].pc \in {"done", "nap"}
            /\ stasks'[i].pc = "done" => stasks'[i].endedBy = "config"
            /\ stasks'[i].afterTorn = stasks[i].afterTorn
       /\ SentinelWake(i) /\ stasks'[i].pc = "fetch" => stasks'[i].want = vanity_code
       /\ stasks[i].pc = "done" => stasks'[i] = stasks[i]]_vars

\* a task that had handled a drift ended at the configuration check
C17_Witness ==
  \E i \in Sentinels :
    /\ stasks[i].pc = "done"
    /\ stasks[i].endedBy = "config"
    /\ stasks[i].handledAt >= 0

\* C18: an exception in a pass of the loop puts the task into a nap of 1 s, after
\* which it runs another pass; a task ends only by cancellation or at the
\* configuration check.
C18_SelfHealing ==
  /\ [](\A i \in Sentinels :
          /\ stasks[i].pc = "done" => stasks[i].endedBy \in {"cancel", "config"}
          /\ stasks[i].err # "none" =>
               /\ stasks[i].pc \in {"nap", "fetch"}
               /\ stasks[i].pc = "nap" => stasks[i].slept = 1000)
  /\ [][\A i \in Sentinels :
          SentinelWake(i) /\ stasks[i].pc = "nap" =>
            stasks'[i].pc \in {"fetch", "nap", "done"}]_vars

\* the log raised, and the task is in its next pass
C18_Witness ==
  \E i \in Sentinels :
    /\ stasks[i].pc = "fetch"
    /\ stasks[i].err = "log"

\* C19: when on_guild_update has reverted a drifted vanity code, or failed to, it
\* invokes punish exactly when a changer was attributed who is neither whitelisted,
\* nor a wladmin, nor the owner; for an exempt changer it only logs, and with no
\* changer it does neither.
C19_VanityPunish ==
  [][\A i \in 1..MaxEvents :
       (tasks[i].pc = "gu_log" /\ tasks'[i] # tasks[i]) =>
         LET a == tasks[i].actor
             ex == a \in whitelist \cup admins \/ a = Owner
         IN  /\ ~tasks[i].invoked
             /\ tasks'[i].invoked <=> (a # None /\ ~ex)
             /\ (a # None /\ ex) =>
                  tasks'[i] = [tasks[i] EXCEPT
                     !.pc = "done", !.exempt = TRUE,
                     !.logs = @ \cup {"Vanity Guard: Change by whitelisted/owner"}]
             /\ a = None => tasks'[i] = [tasks[i] EXCEPT !.pc = "done"]]_vars

\* the revert failed and the attributed changer is punished all the same
C19_Witness ==
  \E i \in 1..MaxEvents :
    /\ tasks[i].type = "guild_update"
    /\ tasks[i].actor = "u1"
    /\ "Vanity Guard: Reverted" \in tasks[i].logs
    /\ ~tasks[i].ok
    /\ tasks[i].invoked
    /\ "Attacker jailed" \in tasks[i].logs

\* C20: in ban mode a ban that succeeds is logged and ends punish with no other
\* mutation attempted; a ban that fails is followed by the strip step when the
\* attacker has roles below the bot's, by the jail step otherwise, and by the
\* final log.
C20_BanFallThrough ==
  /\ [](\A i \in 1..MaxEvents :
          /\ "Banned attacker" \in tasks[i].logs =>
               tasks[i].pc = "done" /\ tasks[i].attempts = {"ban"}
          /\ tasks[i].pc = "p_ban" => punishment = "ban" /\ tasks[i].attempts = {"ban"}
          /\ (tasks[i].pc = "done" /\ "ban" \in tasks[i].attempts
                /\ "Banned attacker" \notin tasks[i].logs) =>
               "Attacker jailed" \in tasks[i].logs)
  /\ [][\A i \in 1..MaxEvents :
          (tasks[i].pc = "p_ban" /\ tasks'[i] # tasks[i]) =>
            \/ /\ members' = members \ {tasks[i].actor}
               /\ tasks'[i] = [tasks[i] EXCEPT !.pc = "done",
                                               !.logs = @ \cup {"Banned attacker"}]
            \/ /\ members' = members
               /\ tasks'[i].logs = tasks[i].logs
               /\ LET lower == {r \in roles[tasks[i].actor] : r < botTop}
                  IN  IF lower # {}
                        THEN /\ tasks'[i].pc = "p_strip"
                             /\ tasks'[i].attempts = {"ban", "remove_roles"}
                             /\ tasks'[i].to_remove = lower
                        ELSE IF jailedRole
                          THEN /\ tasks'[i].pc = "p_add"
                               /\ tasks'[i].attempts = {"ban", "add_roles"}
                          ELSE /\ tasks'[i].pc = "p_create"
                               /\ tasks'[i].attempts = {"ban", "create_role"}]_vars

\* the ban failed, the roles were stripped and the attacker jailed
C20_Witness ==
  \E i \in 1..MaxEvents :
    /\ punishment = "ban"
    /\ tasks[i].pc = "done"
    /\ {"ban", "remove_roles", "add_roles"} \subseteq tasks[i].attempts
    /\ "Attacker jailed" \in tasks[i].logs

\* the text and voice channels after position k of guild.channels
JailableAfter(k) ==
  {j \in (k + 1)..Len(ChannelOrder) : ChannelType(ChannelOrder[j]) \in {"text", "voice"}}

\* the task is at the channel edit of the first channel of js, or, js being empty,
\* has logged the jailing and ended
AtChannelOrEnd(t, js) ==
  IF js = {}
    THEN t.pc = "done" /\ "Attacker jailed" \in t.logs
    ELSE t.pc = "p_chan" /\ t.chan = CHOOSE j \in js : \A k \in js : j <= k

\* C21: whatever mutation call of punish fails, punish goes on to its next step and
\* ends with its log; after the Jailed role is assigned or not, every text and voice
\* channel gets its permission edit in turn, whether the edits before it failed or not.
C21_FailuresAbsorbed ==
  /\ [](\A i \in 1..MaxEvents :
          (tasks[i].pc = "done" /\ tasks[i].attempts # {}) =>
            \/ "Banned attacker" \in tasks[i].logs
            \/ "Attacker jailed" \in tasks[i].logs)
  /\ [][\A i \in 1..MaxEvents :
          tasks'[i] # tasks[i] =>
            /\ tasks[i].pc = "p_ban" =>
                 tasks'[i].pc \in {"done", "p_strip", "p_add", "p_create"}
            /\ tasks[i].pc = "p_strip" => tasks'[i].pc \in {"p_add", "p_create"}
            /\ tasks[i].pc = "p_create" =>
                 \/ tasks'[i].pc = "p_add"
                 \/ tasks'[i].pc = "done" /\ "Attacker jailed" \in tasks'[i].logs
            /\ tasks[i].pc = "p_add" => AtChannelOrEnd(tasks'[i], JailableAfter(0))
            /\ tasks[i].pc = "p_chan" =>
                 AtChannelOrEnd(tasks'[i], JailableAfter(tasks[i].chan))]_vars

\* the edit of the text channel failed and the voice channel was edited all the same
C21_Witness ==
  /\ jailDeny = {"c_voice"}
  /\ \E i \in 1..MaxEvents :
       /\ tasks[i].pc = "done"
       /\ "set_permissions" \in tasks[i].attempts
       /\ "Attacker jailed" \in tasks[i].logs

\* the window of the calls on a key
WindowOf(key) == get_threshold(key[2]).interval

\* the times of the record calls on a key among the first n calls, in order
RECURSIVE Stamps(_, _)
Stamps(key, n) ==
  IF n = 0 THEN <<>>
  ELSE IF calls[n].op = "record" /\ calls[n].key = key
    THEN Append(Stamps(key, n - 1), calls[n].at)
    ELSE Stamps(key, n - 1)

\* the members of a sequence of times that are no older than cutoff
RECURSIVE Unexpired(_, _)
Unexpired(ts, cutoff) ==
  IF ts = <<>> THEN <<>>
  ELSE IF Head(ts) >= cutoff THEN <<Head(ts)>> \o Unexpired(Tail(ts), cutoff)
  ELSE Unexpired(Tail(ts), cutoff)

\* the calls on a key so far
CallsOn(key) == {j \in 1..Len(calls) : calls[j].key = key}

\* C22: a count on a key made more than the window after the last record on that
\* key, or with no record on it at all, returns 0.
C22_ExpiredCountsZero ==
  \A j \in 1..Len(calls) :
    calls[j].op = "count" =>
      LET ts == Stamps(calls[j].key, j)
      IN  (ts = <<>> \/ calls[j].at - ts[Len(ts)] > WindowOf(calls[j].key)) =>
            calls[j].ret = 0

\* a record on a key, and the count on it two seconds later, with a window of one
C22_Witness ==
  \E i, j \in 1..Len(calls) :
    /\ i < j
    /\ calls[i].op = "record"
    /\ calls[j].op = "count"
    /\ calls[j].key = calls[i].key
    /\ calls[j].at - calls[i].at > WindowOf(calls[i].key)
    /\ calls[j].ret = 0

\* C23: the window of every key holds exactly the times recorded on that key that
\* had not expired at the last call on it; every call returns the number of them
\* at its time; a call changes the window of its own key alone; and records on one
\* key that all fall within the window return 1, 2, 3, ... in turn.
C23_KeysIndependent ==
  /\ [](/\ \A key \in DOMAIN tracker :
             tracker[key] =
               IF key \in CallKeys /\ CallsOn(key) # {}
                 THEN LET last == CHOOSE j \in CallsOn(key) : \A k \in CallsOn(key) : k <= j
                      IN  Unexpired(Stamps(key, Len(calls)),
                                    calls[last].at - WindowOf(key))
                 ELSE <<>>
        /\ \A j \in 1..Len(calls) :
             calls[j].ret =
               Len(Unexpired(Stamps(calls[j].key, j), calls[j].at - WindowOf(calls[j].key)))
        /\ \A j \in 1..Len(calls) :
             LET ts == Stamps(calls[j].key, j)
             IN  (calls[j].op = "record" /\ calls[j].at - ts[1] <= WindowOf(calls[j].key))
                   => calls[j].ret = Len(ts))
  /\ [][\A key \in DOMAIN tracker :
          tracker'[key] # tracker[key] =>
            /\ Len(calls') = Len(calls) + 1
            /\ calls'[Len(calls')].key = key]_vars

\* two records on one key within the window, between them a record on another kind
\* of the same user: the second returns 2
C23_Witness ==
  /\ Len(calls) = 3
  /\ calls[3].op = "record"
  /\ calls[3].ret = 2
  /\ calls[1].op = "record"
  /\ calls[1].key = calls[3].key
  /\ calls[2].op = "record"
  /\ calls[2].key # calls[3].key
  /\ calls[2].key[1] = calls[3].key[1]

\* an entry names the scan's target and is less than 30 s old
Matches(e) == e.target = scan.target /\ e.age < 30

\* C24: an attribution ends with an actor or with unknown, never with an exception;
\* an actor it returns is the acting user of one of the six newest entries, one that
\* names the target and is less than 30 s old; with no such entry among the six the
\* result is unknown.
C24_AttributionBounded ==
  scan.pc = "done" =>
    /\ scan.result \in Users \cup {None}
    /\ scan.result # None =>
         \E j \in 1..6 :
           /\ j <= Len(scan.log)
           /\ Matches(scan.log[j])
           /\ scan.result = scan.log[j].user
    /\ (\A j \in 1..6 : j <= Len(scan.log) => ~Matches(scan.log[j])) =>
         scan.result = None

\* the sixth entry is the first that matches, and its user is returned
C24_Witness ==
  /\ scan.pc = "done"
  /\ Len(scan.log) = 7
  /\ scan.from = 6
  /\ scan.result = "u1"

\* C25: when the matching entry's acting user has left the guild, the attribution
\* still returns that user.
C25_DepartedActorReturned ==
  (scan.pc = "done" /\ scan.from # 0 /\ ~scan.log[scan.from].present) =>
    scan.result = scan.log[scan.from].user

\* the task waits for _fetch_current_vanity
AtFetch(i) == i \in Sentinels /\ stasks[i].pc = "fetch"

\* C26: a sentinel that waits for its vanity fetch goes on after a bounded wait,
\* whether the fetch returns or not.
C26_FetchBounded ==
  \A i \in 1..MaxTasks : AtFetch(i) ~> ~AtFetch(i)

\* C27: once a set-code request of a revert was refused with a permission error,
\* no further request is sent for that revert.
C27_ForbiddenTerminal ==
  \A p \in Paths : ~reverts[p].afterForbidden

\* C28: when both paths revert the same drift, the one that sent fewer requests
\* sent at most one: together they send at most one request more than one path.
C28_OneExtraCall ==
  (\A p \in Paths : reverts[p].pc = "done") =>
    \E p \in Paths : reverts[p].sent <= 1

Authorised(u) == u = Owner \/ u \in admins

WladminNames == {"wladmin_add", "wladmin_remove"}

\* C29: the admins set changes only in a wladmin add/remove invoked by the guild's
\* owner; the same commands invoked by anyone else, a wladmin included, are refused
\* and leave the set as it was.
C29_AdminsByOwnerOnly ==
  [][/\ admins' # admins =>
          /\ lastcmd'.name \in WladminNames
          /\ lastcmd'.invoker = Owner
          /\ ~lastcmd'.refused
     /\ (lastcmd' # lastcmd /\ lastcmd'.name \in WladminNames /\ lastcmd'.invoker # Owner) =>
          /\ lastcmd'.refused
          /\ admins' = admins]_vars

\* the owner has made u2 a wladmin, and u2's own wladmin add was refused
C29_Witness ==
  /\ lastcmd = [name |-> "wladmin_add", invoker |-> "u2", refused |-> TRUE]
  /\ "u2" \in admins
  /\ ops = 1

\* C30: a command whose invoker is neither the guild's owner nor in admins is
\* refused and changes nothing of the configuration, the lockdown state or the
\* guild, whether the invoker is whitelisted or not.
C30_CommandsGated ==
  [][(lastcmd' # lastcmd /\ ~Authorised(lastcmd'.invoker)) =>
       /\ lastcmd'.refused
       /\ UNCHANGED <<engineVars, lockVars, sentinelVars>>]_vars

\* a whitelisted user who is no wladmin had a lockdown refused
C30_Witness ==
  /\ lastcmd.name = "lockdown"
  /\ lastcmd.refused
  /\ lastcmd.invoker \in whitelist \ admins

\* C31: what g() returns has all nine fields, the ones the stored record lacked
\* at their defaults and the ones it had as they were, and the record kept in the
\* store afterwards is a full one.
C31_ConfigComplete ==
  cfgcall.called =>
    /\ DOMAIN cfgcall.ret = Fields
    /\ Cardinality(Fields) = 9
    /\ \A f \in Fields :
         cfgcall.ret[f] = IF f \in DOMAIN cfgcall.before THEN cfgcall.before[f] ELSE Defaults(f)
    /\ DOMAIN cfgcall.store = Fields

\* g() found a record with a stored punishment other than the default and without
\* thresholds
C31_Witness ==
  /\ cfgcall.called
  /\ "thresholds" \notin DOMAIN cfgcall.before
  /\ "punishment" \in DOMAIN cfgcall.before
  /\ cfgcall.before["punishment"] = "ban"
  /\ cfgcall.ret["thresholds"] = DEFAULT_THRESHOLDS

\* the default role's overwrite of ch before the lockdown: add-reactions started
\* as send, speak and stream as connect (InitLockState)
PreLockOverwrite(ch) ==
  [view |-> preLock[ch].view, send |-> preLock[ch].send, connect |-> preLock[ch].connect,
   react |-> preLock[ch].send, speak |-> preLock[ch].connect, stream |-> preLock[ch].connect]

\* C32: after one lock followed by one unlock, every channel that still exists and
\* whose restore call succeeded has every permission of the default role's overwrite
\* at its value from before the lock, add-reactions, speak and stream included.
C32_LockReversible ==
  \A c \in Accepted("unlock") :
    (/\ cmds[c].pc = "done"
     /\ Accepted("unlock") = {c}
     /\ Cardinality(Accepted("lock")) = 1)
    => \A ch \in cmds[c].okSet \cap channels : ow[ch] = PreLockOverwrite(ch)

\* C33: as long as no unlock has been accepted, every channel a lock has denied is
\* in the stored snapshot with the values it had before, and the stored active flag
\* is set, at every point of the lock's run.
C33_SnapshotBeforeEdits ==
  Accepted("unlock") = {} =>
    \A c \in Accepted("lock") : \A ch \in cmds[c].okSet :
      /\ lockActive
      /\ ch \in DOMAIN lockChannels
      /\ lockChannels[ch] = preLock[ch]

\* C34: an unlock that arrives while no lockdown is active is refused and changes
\* no overwrite and nothing of the stored state; an unlock that was accepted ends
\* with the active flag cleared and the snapshot empty, and the channels of its
\* snapshot whose restore call failed keep the overwrite they had.
C34_UnlockClears ==
  [][\A c \in 1..MaxCmds :
       /\ (cmds[c].pc = "idle" /\ cmds'[c].cmd = "unlock" /\ ~lockActive)
            => /\ cmds'[c].refused /\ cmds'[c].pc = "done" /\ cmds'[c].edits = 0
               /\ UNCHANGED <<ow, webhooks, lockChannels, lockActive>>
       /\ (cmds[c].pc # "done" /\ cmds'[c].cmd = "unlock" /\ cmds'[c].pc = "done"
             /\ ~cmds'[c].refused)
            => /\ ~lockActive'
               /\ lockChannels' = EmptyMap
               /\ \A ch \in (DOMAIN cmds'[c].changed \ cmds'[c].okSet) \cap channels :
                    ow'[ch] = ow[ch]]_vars

\* an unlock is over, the restore of a channel the lock had denied failed: the
\* channel is still denied where it was not before, and the stored state is empty
C34_Witness ==
  \E c \in Accepted("unlock") : \E ch \in (DOMAIN cmds[c].changed \ cmds[c].okSet) \cap channels :
    /\ cmds[c].pc = "done"
    /\ Accepted("unlock") = {c}
    /\ Cardinality(Accepted("lock")) = 1
    /\ ow[ch].view = "deny"
    /\ preLock[ch].view # "deny"
    /\ ~lockActive
    /\ lockChannels = EmptyMap

\* C35: a sentinel that naps after a pass that raised, or sleeps after a pass whose
\* fetch returned no code, has an elevated_until set by that pass.
C35_ElevatedAfterFailure ==
  \A i \in Sentinels :
    /\ stasks[i].pc = "nap" => stasks[i].elevated_until # -1
    /\ (stasks[i].pc = "sleep" /\ stasks[i].current = None) =>
         (stasks[i].elevated_until # -1 /\ stasks[i].slept = 250)

\* C36: a punish run that has logged "Attacker jailed" found or created the Jailed
\* role and assigned it to the attacker.
C36_JailedLogMeansJailed ==
  \A i \in 1..MaxEvents :
    "Attacker jailed" \in tasks[i].logs =>
      /\ jailedRole
      /\ tasks[i].actor \in hasJailed

\* d is what is left of seq when timestamps are dropped from its front
IsSuffix(d, seq) ==
  \E k \in 0..Len(seq) : d = SubSeq(seq, k + 1, Len(seq))

\* C37: after a record or a count made at time t on a key with window w, the key's
\* window is in non-decreasing order and holds no timestamp before t - w; record
\* returns the length of the window with t appended to it, and count the length of
\* the window with nothing appended.
C37_WindowTrimmed ==
  [][Len(calls') > Len(calls) =>
       LET e == calls'[Len(calls')]
           d == tracker'[e.key]
       IN  /\ \A a, b \in 1..Len(d) : a <= b => d[a] <= d[b]
           /\ \A a \in 1..Len(d) : d[a] >= e.at - WindowOf(e.key)
           /\ e.ret = Len(d)
           /\ e.op = "record" =>
                /\ IsSuffix(d, Append(tracker[e.key], e.at))
                /\ d # <<>> /\ d[Len(d)] = e.at
           /\ e.op = "count" => IsSuffix(d, tracker[e.key])]_vars

\* two records on a key, and a count on it that dropped the first and kept the second
C37_Witness ==
  \E j \in 1..Len(calls) :
    /\ calls[j].op = "count"
    /\ calls[j].ret = 1
    /\ Len(Stamps(calls[j].key, j)) = 2
    /\ tracker[calls[j].key] # <<>>
    /\ tracker[calls[j].key][1] = calls[j].at - WindowOf(calls[j].key)

\* the events of task j's actor and kind recorded before it, inside its window, for
\* which punish was invoked
PunishedBefore(j) ==
  {i \in Events :
     /\ tasks[i].tracked /\ tasks[i].invoked
     /\ tasks[i].actor = tasks[j].actor /\ tasks[i].kind = tasks[j].kind
     /\ tasks[i].rseq < tasks[j].rseq
     /\ tasks[i].rtime >= tasks[j].rtime - get_threshold(tasks[j].kind).interval}

\* C38: the step that decides on punish leaves the tracker as it was, so an event
\* of the same actor and kind that follows a punished one inside the window counts
\* the punished one too, and invokes punish again when its count reaches the
\* threshold.
C38_WindowNotReset ==
  /\ [](\A j \in Events :
          (tasks[j].tracked /\ PunishedBefore(j) # {}) =>
            /\ tasks[j].n >= 1 + Cardinality(PunishedBefore(j))
            /\ tasks[j].pc \notin {"attribute", "flag_log"} =>
                 (tasks[j].invoked <=> tasks[j].n >= get_threshold(tasks[j].kind).count))
  /\ [][\A i \in Events :
          (tasks[i].pc = "flag_log" /\ tasks'[i].pc # "flag_log") => tracker' = tracker]_vars

\* threshold count 1: two events of one member inside the interval, and punish was
\* invoked for each
C38_Witness ==
  \E i, j \in Events :
    /\ i \in PunishedBefore(j)
    /\ get_threshold(tasks[j].kind).count = 1
    /\ tasks[i].n = 1 /\ tasks[i].pc = "done"
    /\ tasks[j].n = 2 /\ tasks[j].invoked /\ tasks[j].pc = "done"

\* C39: with protection on and a desired code D, a live code that is present and
\* differs from D becomes D, unless the desired code is changed again; every pass of
\* the sentinel reads the desired code anew, and its set-code call and its burst
\* reclaim target the code the pass has read.
C39_Converges ==
  /\ \A D \in Codes :
       (vanity_protect /\ vanity_code = D /\ liveCode \notin {None, D})
         ~> (liveCode = D \/ vanity_code # D \/ ~vanity_protect)
  /\ [][\A i \in Sentinels :
          /\ (SentinelWake(i) /\ stasks'[i].pc = "fetch") => stasks'[i].want = vanity_code
          /\ (stasks[i].pc # "set" /\ stasks'[i].pc = "set") =>
               stasks'[i].setWant = stasks[i].want
          /\ (stasks[i].pc # "burst" /\ stasks'[i].pc = "burst") =>
               stasks'[i].burstWant = stasks[i].want]_vars

\* setvanity has changed the desired code while the sentinel's reclaim for the old
\* one is in progress, and the live code is neither
C39_Witness ==
  \E i \in Sentinels :
    /\ stasks[i].pc \in {"set", "burst"}
    /\ stasks[i].want # vanity_code
    /\ liveCode # vanity_code
    /\ vanity_protect

Drifted == vanity_protect /\ vanity_code # None /\ liveCode \notin {None, vanity_code}

\* C40: in a guild whose anti-nuke is disabled and whose vanity protection is on, a
\* guild update that shows a drift goes on to its set-code call for the desired code,
\* its changer, when attributed and not exempt, has punish invoked, and a sentinel
\* pass that fetches a drifted code issues its set-code call.
C40_GuardIgnoresEnabled ==
  [][~enabled =>
       /\ (GuildUpdateArrive /\ Drifted) =>
            /\ tasks'[NextSlot].pc = "gu_audit"
            /\ tasks'[NextSlot].want = vanity_code
       /\ \A i \in 1..MaxEvents :
            /\ (tasks[i].pc = "gu_audit" /\ tasks'[i] # tasks[i]) => tasks'[i].pc = "gu_set"
            /\ (tasks[i].pc = "gu_log" /\ tasks'[i] # tasks[i] /\ tasks[i].actor # None
                  /\ ~is_whitelisted(tasks[i].actor) /\ tasks[i].actor # Owner)
                 => tasks'[i].invoked
       /\ \A i \in Sentinels :
            /\ (SentinelWake(i) /\ vanity_protect /\ vanity_code # None) =>
                 stasks'[i].pc \in {"fetch", "nap"}
            /\ (SentinelFetchReply(i) /\ liveCode \notin {None, stasks[i].want}) =>
                 (stasks'[i].pc = "set" /\ stasks'[i].setWant = stasks[i].want)]_vars

\* the guild is disabled; afterwards a guild update arrived, its revert succeeded
\* and its changer was jailed, and the sentinel has issued a set-code call of its own
C40_Witness ==
  /\ ~enabled
  /\ liveCode = vanity_code
  /\ \E i \in 1..MaxEvents :
       /\ tasks[i].type = "guild_update" /\ tasks[i].pc = "done"
       /\ ~tasks[i].en
       /\ tasks[i].ok /\ tasks[i].invoked /\ ~tasks[i].exempt
       /\ tasks[i].actor \in hasJailed
  /\ \E i \in Sentinels : stasks[i].handledAt >= 0
====
